---- MODULE Spec2Model ----
(***************************************************************************)
(* Model of the CEL type checker's Check pass                              *)
(* (checker/internal/type_checker_impl.cc): the ResolveVisitor driven by   *)
(* AstTraverse, the error latch of TypeCheckerImpl::Check and the          *)
(* ResolveRewriter.                                                        *)
(*                                                                         *)
(* A dotted name such as "a.b.x" is the sequence of its segments           *)
(* <<"a","b","x">>; absl::StrCat(p, ".", q) is p \o q.                     *)
(***************************************************************************)
EXTENDS Integers, Sequences, FiniteSets, TLC

\* ------------------------------------------------------------------ bounds
\* Longest identifier/select chain q1.q2...qk of the generated ASTs.
MaxChain == 3
\* Most segments of a container name.
MaxContainer == 2

\* ------------------------------------------------------------------- types
\* cel::Type: kind k, name n (struct, opaque, type_param), parameters p.
Prim(k) == [k |-> k, n |-> <<>>, p |-> <<>>]
DynType == Prim("dyn")
ErrorType == Prim("error")
NullType == Prim("null")
BoolType == Prim("bool")
IntType == Prim("int")
UintType == Prim("uint")
DoubleType == Prim("double")
StringType == Prim("string")
BytesType == Prim("bytes")
DurationType == Prim("duration")
TimestampType == Prim("timestamp")
AnyType == Prim("any")
IntWrapperType == Prim("int_wrapper")
UnknownType == Prim("unknown")
FunctionType(res, args) == [k |-> "function", n |-> <<>>, p |-> <<res>> \o args]
ListType(e) == [k |-> "list", n |-> <<>>, p |-> <<e>>]
MapType(key, val) == [k |-> "map", n |-> <<>>, p |-> <<key, val>>]
StructType(name) == [k |-> "struct", n |-> name, p |-> <<>>]
OpaqueType(name, params) == [k |-> "opaque", n |-> name, p |-> params]
OptionalType(t) == OpaqueType(<<"optional_type">>, <<t>>)
TypeParamType(name) == [k |-> "type_param", n |-> name, p |-> <<>>]
TypeType(params) == [k |-> "type", n |-> <<>>, p |-> params]

IsOptional(t) == t.k = "opaque" /\ t.n = <<"optional_type">> /\ Len(t.p) = 1

FreeListType == ListType(TypeParamType(<<"element_type">>))
FreeMapType == MapType(TypeParamType(<<"key_type">>), TypeParamType(<<"value_type">>))

\* Join of a list of names with ".".
RECURSIVE FormatCandidate(_)
FormatCandidate(qualifiers) ==
  IF qualifiers = <<>> THEN <<>>
  ELSE Head(qualifiers) \o FormatCandidate(Tail(qualifiers))

\* The elements of a sequence; a sequence backwards.
SeqToSet(s) == {s[i] : i \in 1..Len(s)}
Reverse(s) == [i \in 1..Len(s) |-> s[Len(s) + 1 - i]]

\* --------------------------------------------------------------------- AST
\* One Expr node.  Child links are node ids (0: absent); the id of a node
\* is its index in the node table, and stands for the Expr's address too.
\* args: select operand | call args | list elements |
\*       comprehension <<iter_range, accu_init, loop_condition, loop_step, result>> |
\*       map <<key 1, value 1, key 2, value 2, ...>> | struct field values
\* opt: the optional flags of the list elements, map entries, struct fields
\* fields: the field names of a struct creation (name: the struct's name)
N0 == [kind |-> "unspecified", name |-> <<>>, test_only |-> FALSE, ckind |-> "none",
       target |-> 0, args |-> <<>>, opt |-> <<>>,
       iter_var |-> <<>>, accu_var |-> <<>>, fields |-> <<>>]

ShiftNode(nd, k) ==
  [nd EXCEPT !.target = IF @ = 0 THEN 0 ELSE @ + k,
             !.args = [i \in 1..Len(@) |-> @[i] + k]]
Shift(frag, k) == [i \in 1..Len(frag) |-> ShiftNode(frag[i], k)]

\* Concatenation of fragments (each a node table whose root is its last
\* node): the joined table and the ids of the fragments' roots in it.
RECURSIVE Join(_)
Join(frags) ==
  IF frags = <<>> THEN [nodes |-> <<>>, roots |-> <<>>]
  ELSE LET front == Join(SubSeq(frags, 1, Len(frags) - 1))
           last == frags[Len(frags)]
           off == Len(front.nodes)
       IN [nodes |-> front.nodes \o Shift(last, off),
           roots |-> Append(front.roots, off + Len(last))]

MkConst(ck) == <<[N0 EXCEPT !.kind = "const", !.ckind = ck]>>
MkIdent(nm) == <<[N0 EXCEPT !.kind = "ident", !.name = nm]>>
MkSelect(operand, field, to) ==
  Append(operand, [N0 EXCEPT !.kind = "select", !.name = field,
                             !.args = <<Len(operand)>>, !.test_only = to])
\* tgt = <<>>: a call without receiver target.
MkCall(fn, tgt, argfrags) ==
  LET j == Join(IF tgt = <<>> THEN argfrags ELSE <<tgt>> \o argfrags)
  IN Append(j.nodes, [N0 EXCEPT !.kind = "call", !.name = fn,
                        !.target = IF tgt = <<>> THEN 0 ELSE j.roots[1],
                        !.args = IF tgt = <<>> THEN j.roots ELSE Tail(j.roots)])
MkList(elemfrags, opts) ==
  LET j == Join(elemfrags)
  IN Append(j.nodes, [N0 EXCEPT !.kind = "list", !.args = j.roots, !.opt = opts])
\* entryfrags: <<key 1, value 1, key 2, value 2, ...>>; opts: one flag per entry.
MkMap(entryfrags, opts) ==
  LET j == Join(entryfrags)
  IN Append(j.nodes, [N0 EXCEPT !.kind = "map", !.args = j.roots, !.opt = opts])
MkStruct(nm, fieldnames, valuefrags, opts) ==
  LET j == Join(valuefrags)
  IN Append(j.nodes, [N0 EXCEPT !.kind = "struct", !.name = nm, !.args = j.roots,
                        !.opt = opts, !.fields = fieldnames])
MkComprehension(iv, range, av, init, cond, step, res) ==
  LET j == Join(<<range, init, cond, step, res>>)
  IN Append(j.nodes, [N0 EXCEPT !.kind = "comprehension", !.args = j.roots,
                        !.iter_var = iv, !.accu_var = av])

\* Accessors named as in common/expr.h.
iter_range(nd) == nd.args[1]
accu_init(nd) == nd.args[2]
loop_condition(nd) == nd.args[3]
loop_step(nd) == nd.args[4]
result(nd) == nd.args[5]
operand(nd) == nd.args[1]
has_target(nd) == nd.target # 0
\* The key and the value of the i-th entry of a map.
entry_key(nd, i) == nd.args[2 * i - 1]
entry_value(nd, i) == nd.args[2 * i]
\* The id of the i-th field of a struct creation.  Entries have ids of their
\* own, apart from the expressions' ids: the field of the value with id n
\* has id -n.
field_id(nd, i) == 0 - nd.args[i]

\* ------------------------------------------------------------- environment
\* TypeCheckEnv: container, variables (VariableDecl), functions
\* (FunctionDecl with its overloads in declaration order), types, fields.
\* A VariableDecl carries the scope that owns it (0: the environment), which
\* stands for the decl's address: two decls of equal name and type in
\* different scopes are different decls.
MakeVariableDecl(name, type, scope) == [name |-> name, type |-> type, scope |-> scope]
MakeOverload(id, member, params, res) ==
  [id |-> id, member |-> member, parameters |-> params, result |-> res]
MakeFunctionDecl(name, overloads) == [name |-> name, overloads |-> overloads]

\* env.LookupFunction(name): the decls of that name (one at most).
LookupFunction(env, name) == {d \in env.functions : d.name = name}
\* env.LookupTypeName(name)
LookupTypeName(env, name) == {d \in env.types : d.name = name}
\* env.LookupStructField(struct_name, field)
LookupStructField(env, struct_name, field) ==
  {f \in env.fields : f.struct = struct_name /\ f.name = field}
\* The status of env.LookupTypeName(name): ok, or the error of a type
\* provider that fails for that name.
LookupTypeNameStatus(env, name) ==
  LET failing == {x \in env.unavailable : x.kind = "type" /\ x.name = name}
  IN IF failing = {} THEN "ok" ELSE (CHOOSE x \in failing : TRUE).status
\* The status of env.LookupStructField(struct_name, field).
LookupStructFieldStatus(env, struct_name, field) ==
  LET failing == {x \in env.unavailable :
                    x.kind = "field" /\ x.name = struct_name /\ x.field = field}
  IN IF failing = {} THEN "ok" ELSE (CHOOSE x \in failing : TRUE).status

\* ------------------------------------------------------ NamespaceGenerator
\* The container prefixes, longest first, then the empty prefix.
ContainerPrefixes(container) ==
  [i \in 1..(Len(container) + 1) |-> SubSeq(container, 1, Len(container) + 1 - i)]

\* GenerateCandidates(name, callback): the candidates in the order they are
\* offered to the callback: c1...cn.N, c1...cn-1.N, ..., c1.N, N.
GenerateCandidates(container, name) ==
  LET pre == ContainerPrefixes(container)
  IN [i \in 1..Len(pre) |-> pre[i] \o name]

\* GenerateCandidates(qualifiers, callback): for the qualifier prefixes
\* q1..qk, q1..qk-1, ..., q1 in turn, each with the full container-prefix
\* search.  segment_index is the index (from 0) of the last qualifier of the
\* candidate, as ResolveQualifiedIdentifier consumes it.
GenerateQualifiedCandidates(container, qualifiers) ==
  LET pre == ContainerPrefixes(container)
      np == Len(pre)
      k == Len(qualifiers)
  IN [i \in 1..(k * np) |->
        LET j == k - ((i - 1) \div np)
            c == ((i - 1) % np) + 1
        IN [candidate |-> pre[c] \o FormatCandidate(SubSeq(qualifiers, 1, j)),
            segment_index |-> j - 1]]

\* Index of the first element of cands the callback stops at (Len + 1 when
\* it never stops), stops being the indices it would stop at: the callback
\* sees cands[1..FirstStop] and nothing after.
FirstStop(cands, stops) ==
  IF stops = {} THEN Len(cands) + 1
  ELSE CHOOSE i \in stops : \A j \in stops : i <= j

Offered(cands, stop) == SubSeq(cands, 1, IF stop > Len(cands) THEN Len(cands) ELSE stop)

\* ----------------------------------------------------------- VariableScope
\* scopes: the nested scopes made so far (comprehension_vars_); scope 0 is
\* the root scope, which reads the environment's variables.
MakeNestedScope(parent) == [parent |-> parent, vars |-> {}]

RECURSIVE LookupVariable(_, _, _, _)
LookupVariable(env, scopes, s, name) ==
  IF s = 0 THEN {d \in env.variables : d.name = name}
  ELSE LET here == {d \in scopes[s].vars : d.name = name}
       IN IF here # {} THEN here
          ELSE LookupVariable(env, scopes, scopes[s].parent, name)

InsertVariableIfAbsent(scopes, s, decl) ==
  IF \E d \in scopes[s].vars : d.name = decl.name THEN scopes
  ELSE [scopes EXCEPT ![s].vars = @ \cup {decl}]

\* ---------------------------------------------------- TypeInferenceContext
\* next: the number of the next fresh type variable; bind: the assignments
\* of the bound type variables (a free variable has none).
NumStr == <<"1", "2", "3", "4", "5", "6", "7", "8", "9", "10", "11", "12",
            "13", "14", "15", "16", "17", "18", "19", "20", "21", "22", "23", "24">>
FreshName(i) == <<"T%", NumStr[i]>>
NewTypeInferenceContext == [next |-> 1, bind |-> <<>>]

RECURSIVE ConcatAll(_)
ConcatAll(seqs) == IF seqs = <<>> THEN <<>> ELSE Head(seqs) \o ConcatAll(Tail(seqs))

RECURSIVE Distinct(_)
Distinct(s) ==
  IF s = <<>> THEN <<>>
  ELSE LET front == Distinct(SubSeq(s, 1, Len(s) - 1))
           x == s[Len(s)]
       IN IF x \in SeqToSet(front) THEN front ELSE Append(front, x)

IndexOf(s, x) == CHOOSE i \in 1..Len(s) : s[i] = x

\* The names of the type parameters of t, in order of first occurrence.
RECURSIVE TypeParamsOf(_)
TypeParamsOf(t) ==
  IF t.k = "type_param" THEN <<t.n>>
  ELSE ConcatAll([i \in 1..Len(t.p) |-> TypeParamsOf(t.p[i])])

RECURSIVE Substitute(_, _)
Substitute(t, m) ==
  IF t.k = "type_param" THEN (IF t.n \in DOMAIN m THEN m[t.n] ELSE t)
  ELSE [t EXCEPT !.p = [i \in 1..Len(t.p) |-> Substitute(t.p[i], m)]]

\* InstantiateTypeParams(t): every distinct type_param of t replaced by a
\* fresh unbound variable.
InstantiateTypeParams(ic, t) ==
  LET names == Distinct(TypeParamsOf(t))
      m == [nm \in SeqToSet(names) |->
              TypeParamType(FreshName(ic.next + IndexOf(names, nm) - 1))]
  IN [type |-> Substitute(t, m), ic |-> [ic EXCEPT !.next = @ + Len(names)]]

\* The type a (bound) variable stands for.
RECURSIVE Deref(_, _)
Deref(ic, t) ==
  IF t.k = "type_param" /\ t.n \in DOMAIN ic.bind THEN Deref(ic, ic.bind[t.n]) ELSE t

RECURSIVE Occurs(_, _, _)
Occurs(ic, name, t) ==
  LET d == Deref(ic, t)
  IN IF d.k = "type_param" THEN d.n = name
     ELSE \E i \in 1..Len(d.p) : Occurs(ic, name, d.p[i])

WrapperKinds == {"bool_wrapper", "int_wrapper", "uint_wrapper", "double_wrapper",
                 "string_wrapper", "bytes_wrapper"}
WrappedKind(k) ==
  CASE k = "bool_wrapper" -> "bool" [] k = "int_wrapper" -> "int"
    [] k = "uint_wrapper" -> "uint" [] k = "double_wrapper" -> "double"
    [] k = "string_wrapper" -> "string" [] k = "bytes_wrapper" -> "bytes"
CompoundKinds == {"list", "map", "opaque", "type"}

\* The type compatible with every type, on either side, without binding:
\* dyn.  UniversalOrAny: were any to be treated like dyn.
UniversalOrAny(t) == t.k \in {"dyn", "any"}
Universal(t) == t.k = "dyn"

\* A declared wrapper takes its own kind and the primitive it wraps.
\* WrapperAssignableFromPrimitive: were it to take the primitive only.
WrapperAssignableFromPrimitive(dk, ak) == ak = WrappedKind(dk)
WrapperAssignableFrom(dk, ak) == ak = dk \/ ak = WrappedKind(dk)

\* IsAssignable(actual, declared): [ok, ic]; ic holds the new bindings when
\* ok, and is the context as it was otherwise.
RECURSIVE IsAssignable(_, _, _)
RECURSIVE AllAssignable(_, _, _)
IsAssignable(ic, actual, declared) ==
  LET a == Deref(ic, actual)
      d == Deref(ic, declared)
      yes == [ok |-> TRUE, ic |-> ic]
      no == [ok |-> FALSE, ic |-> ic]
      Bind(v, t) == IF Occurs(ic, v.n, t) THEN no
                    ELSE [ok |-> TRUE, ic |-> [ic EXCEPT !.bind = (v.n :> t) @@ @]]
  IN IF Universal(a) \/ Universal(d) THEN yes
     ELSE IF a.k = "type_param" /\ d.k = "type_param"
       THEN (IF a.n = d.n THEN yes ELSE Bind(d, a))
     ELSE IF d.k = "type_param" THEN Bind(d, a)
     ELSE IF a.k = "type_param" THEN Bind(a, d)
     ELSE IF a.k = "null"
       THEN (IF d.k \in WrapperKinds \cup {"any", "null"} THEN yes ELSE no)
     ELSE IF d.k \in WrapperKinds
       THEN (IF WrapperAssignableFrom(d.k, a.k) THEN yes ELSE no)
     ELSE IF a.k \in CompoundKinds
       THEN (IF a.k = d.k /\ a.n = d.n /\ Len(a.p) = Len(d.p)
               THEN LET r == AllAssignable(ic, a.p, d.p)
                    IN IF r.ok THEN r ELSE no
               ELSE no)
     ELSE IF a = d THEN yes ELSE no

\* Pairwise IsAssignable(actuals[i], declareds[i]), left to right.
AllAssignable(ic, actuals, declareds) ==
  IF actuals = <<>> THEN [ok |-> TRUE, ic |-> ic]
  ELSE LET r == IsAssignable(ic, Head(actuals), Head(declareds))
       IN IF r.ok THEN AllAssignable(r.ic, Tail(actuals), Tail(declareds))
          ELSE [ok |-> FALSE, ic |-> ic]

\* One candidate of ResolveOverload: snapshot, fresh instantiation of the
\* overload's type parameters, pairwise assignability; rolled back on failure.
TryOverload(ic, ovl, arg_types) ==
  LET inst == InstantiateTypeParams(ic, OpaqueType(<<"signature">>,
                                        Append(ovl.parameters, ovl.result)))
      params == SubSeq(inst.type.p, 1, Len(ovl.parameters))
      r == AllAssignable(inst.ic, arg_types, params)
  IN IF r.ok THEN [ok |-> TRUE, ic |-> r.ic, result |-> inst.type.p[Len(inst.type.p)]]
     ELSE [ok |-> FALSE, ic |-> ic, result |-> DynType]

\* Steps 1-3, were a rejected candidate to leave its instantiation and the
\* bindings of its first argument behind.
RECURSIVE MatchOverloadsKept(_, _, _, _)
MatchOverloadsKept(ic, overloads, arg_types, is_receiver) ==
  IF overloads = <<>> THEN [ic |-> ic, overloads |-> <<>>, results |-> <<>>]
  ELSE LET front == MatchOverloadsKept(ic, SubSeq(overloads, 1, Len(overloads) - 1),
                                       arg_types, is_receiver)
           ovl == overloads[Len(overloads)]
           shape == ovl.member = is_receiver /\ Len(ovl.parameters) = Len(arg_types)
           try == TryOverload(front.ic, ovl, arg_types)
           inst == InstantiateTypeParams(front.ic, OpaqueType(<<"signature">>,
                                           Append(ovl.parameters, ovl.result)))
           head == IF arg_types = <<>> THEN [ok |-> FALSE, ic |-> inst.ic]
                   ELSE IsAssignable(inst.ic, arg_types[1], inst.type.p[1])
       IN IF shape /\ try.ok
          THEN [ic |-> try.ic, overloads |-> Append(front.overloads, ovl),
                results |-> Append(front.results, try.result)]
          ELSE IF shape
          THEN [front EXCEPT !.ic = IF head.ok THEN head.ic ELSE inst.ic]
          ELSE front

\* Steps 1-3 of ResolveOverload over the overloads in declaration order.
RECURSIVE MatchOverloads(_, _, _, _)
MatchOverloads(ic, overloads, arg_types, is_receiver) ==
  IF overloads = <<>> THEN [ic |-> ic, overloads |-> <<>>, results |-> <<>>]
  ELSE LET front == MatchOverloads(ic, SubSeq(overloads, 1, Len(overloads) - 1),
                                   arg_types, is_receiver)
           ovl == overloads[Len(overloads)]
           shape == ovl.member = is_receiver /\ Len(ovl.parameters) = Len(arg_types)
           try == TryOverload(front.ic, ovl, arg_types)
       IN IF shape /\ try.ok
          THEN [ic |-> try.ic, overloads |-> Append(front.overloads, ovl),
                results |-> Append(front.results, try.result)]
          ELSE front

\* Step 4 of ResolveOverload on the survivors m: has = FALSE for None.
OverloadResolution(ic, m) ==
  IF m.overloads = <<>>
  THEN [has |-> FALSE, ic |-> ic, overloads |-> <<>>, result_type |-> DynType]
  ELSE [has |-> TRUE, ic |-> m.ic, overloads |-> m.overloads,
        result_type |-> IF \A i \in 1..Len(m.results) : m.results[i] = m.results[1]
                        THEN m.results[1] ELSE DynType]

\* ResolveOverload(decl, arg_types, is_receiver)
ResolveOverload(ic, decl, arg_types, is_receiver) ==
  OverloadResolution(ic, MatchOverloads(ic, decl.overloads, arg_types, is_receiver))

\* FinalizeType(t): bound variables replaced by their assignment, the free
\* ones left in place (FlattenType turns them into dyn).
RECURSIVE FinalizeType(_, _)
FinalizeType(ic, t) ==
  LET d == Deref(ic, t)
  IN [d EXCEPT !.p = [i \in 1..Len(d.p) |-> FinalizeType(ic, d.p[i])]]

\* ------------------------------------------------------------------- state
VARIABLES
  env,    \* the TypeCheckEnv of the checker (read-only)
  ast,    \* the AstImpl under check: nodes, root, reference_map, type_map, is_checked
  vis,    \* the ResolveVisitor, with the issues and the inference context it points to
  work,   \* AstTraverse's stack of pending visits
  rw,     \* the ResolveRewriter: status_ and the next node of AstRewrite
  pc,     \* where Check is: "traverse", "rewrite", "done"
  out,    \* what Check returned
  run,    \* 1: the check of the parsed AST; 2: the check of the checked AST again
  first,  \* the first run's AST and result, kept for the second run
  probe   \* IsAssignable called on its own: the types handed to it, its answers

vars == <<env, ast, vis, work, rw, pc, out, run, first, probe>>

Put(table, key, val) == (key :> val) @@ table
Node(id) == ast.nodes[id]

\* ------------------------------------------------------------ ResolveVisitor
\* A TypeCheckIssue; id is the expression the location is computed from.
Issue(severity, id, msg, name, types) ==
  [severity |-> severity, id |-> id, msg |-> msg, name |-> name, types |-> types]

NewResolveVisitor ==
  [expr_stack_ |-> <<>>, current_scope_ |-> 0,
   maybe_namespaced_functions_ |-> <<>>, deferred_select_operations_ |-> {},
   status_ |-> "ok", comprehension_vars_ |-> <<>>, comprehension_scopes_ |-> <<>>,
   functions_ |-> <<>>, attributes_ |-> <<>>, struct_types_ |-> <<>>, types_ |-> <<>>,
   issues |-> <<>>, ic |-> NewTypeInferenceContext,
   \* not program state: the candidates the enumerations of the latest
   \* handler offered to their callbacks, one sequence per enumeration
   gen_log |-> <<>>,
   \* not program state: the expressions post-visited so far, in order
   visit_log |-> <<>>,
   \* not program state: the errors given to status_.Update so far, in order
   status_log |-> <<>>]

\* absl::Status::Update: the first error is kept.
\* status_.Update(err): the first error stays.
StatusUpdate(v, err) ==
  [v EXCEPT !.status_ = IF @ = "ok" THEN err ELSE @,
            !.status_log = Append(@, err)]

ReportMissingReference(v, id, name) ==
  [v EXCEPT !.issues = Append(@, Issue("error", id, "undeclared reference", name, <<>>))]

ReportUndefinedField(v, id, field_name, struct_name) ==
  [v EXCEPT !.issues = Append(@, Issue("error", id, "undefined field",
                                       struct_name \o field_name, <<>>))]

\* GetTypeOrDyn, were an expression without type read as the error type.
GetTypeOrError(v, id) == IF id \in DOMAIN v.types_ THEN v.types_[id] ELSE ErrorType

GetTypeOrDyn(v, id) == IF id \in DOMAIN v.types_ THEN v.types_[id] ELSE DynType

SetType(v, id, t) == [v EXCEPT !.types_ = Put(@, id, t)]

\* types_[id] = inference_context_->InstantiateTypeParams(decl->type())
SetInstantiatedType(v, id, t) ==
  LET inst == InstantiateTypeParams(v.ic, t)
  IN [v EXCEPT !.types_ = Put(@, id, inst.type), !.ic = inst.ic]

ScopeLookup(v, name) ==
  LookupVariable(env, v.comprehension_vars_, v.current_scope_, name)

\* ResolveSimpleIdentifier, were the candidates offered in reverse order.
ResolveSimpleIdentifierShortest(v, id, name) ==
  LET cands == Reverse(GenerateCandidates(env.container, name))
      stop == FirstStop(cands, {i \in 1..Len(cands) : ScopeLookup(v, cands[i]) # {}})
      v1 == [v EXCEPT !.gen_log = Append(@, Offered(cands, stop))]
  IN IF stop > Len(cands) THEN ReportMissingReference(v1, id, name)
     ELSE LET decl == CHOOSE d \in ScopeLookup(v, cands[stop]) : TRUE
          IN SetInstantiatedType([v1 EXCEPT !.attributes_ = Put(@, id, decl)],
                                 id, decl.type)

ResolveSimpleIdentifier(v, id, name) ==
  LET cands == GenerateCandidates(env.container, name)
      stop == FirstStop(cands, {i \in 1..Len(cands) : ScopeLookup(v, cands[i]) # {}})
      v1 == [v EXCEPT !.gen_log = Append(@, Offered(cands, stop))]
  IN IF stop > Len(cands) THEN ReportMissingReference(v1, id, name)
     ELSE LET decl == CHOOSE d \in ScopeLookup(v, cands[stop]) : TRUE
          IN SetInstantiatedType([v1 EXCEPT !.attributes_ = Put(@, id, decl)],
                                 id, decl.type)

\* ResolveSelectOperation, were a map of any key type to take the field.
ResolveSelectOperationAnyKey(v, id, field, operand_id) ==
  LET operand_type == GetTypeOrDyn(v, operand_id)
      held == IF IsOptional(operand_type) THEN operand_type.p[1] ELSE operand_type
      field_info == LookupStructField(env, held.n, field)
      key_ok == IsAssignable(v.ic, StringType, held.p[1])
      unsupported ==
        [has |-> FALSE, type |-> DynType,
         v |-> [v EXCEPT !.issues = Append(@, Issue("error", id,
                   "cannot be the operand of a select operation", <<>>, <<held>>))]]
      impl ==
        IF held.k = "dyn" \/ held.k = "any"
          THEN [has |-> TRUE, type |-> DynType, v |-> v]
        ELSE IF held.k = "struct"
          THEN (IF field_info = {}
                THEN [has |-> FALSE, type |-> DynType,
                      v |-> ReportUndefinedField(v, id, field, held.n)]
                ELSE [has |-> TRUE, type |-> (CHOOSE f \in field_info : TRUE).type,
                      v |-> v])
        ELSE IF held.k = "map"
          THEN (IF key_ok.ok \/ held.p[1].k # "error"
                THEN [has |-> TRUE, type |-> held.p[2], v |-> [v EXCEPT !.ic = key_ok.ic]]
                ELSE unsupported)
        ELSE unsupported
  IN IF impl.has
     THEN SetType(impl.v, id, IF Node(id).test_only THEN BoolType ELSE impl.type)
     ELSE impl.v

ResolveSelectOperation(v, id, field, operand_id) ==
  LET operand_type == GetTypeOrDyn(v, operand_id)
      held == IF IsOptional(operand_type) THEN operand_type.p[1] ELSE operand_type
      field_info == LookupStructField(env, held.n, field)
      field_status == LookupStructFieldStatus(env, held.n, field)
      key_ok == IsAssignable(v.ic, StringType, held.p[1])
      unsupported ==
        [has |-> FALSE, type |-> DynType,
         v |-> [v EXCEPT !.issues = Append(@, Issue("error", id,
                   "cannot be the operand of a select operation", <<>>, <<held>>))]]
      impl ==
        IF held.k = "dyn" \/ held.k = "any"
          THEN [has |-> TRUE, type |-> DynType, v |-> v]
        ELSE IF held.k = "struct"
          THEN (IF field_status # "ok"
                THEN [has |-> FALSE, type |-> DynType, v |-> StatusUpdate(v, field_status)]
                ELSE IF field_info = {}
                THEN [has |-> FALSE, type |-> DynType,
                      v |-> ReportUndefinedField(v, id, field, held.n)]
                ELSE [has |-> TRUE, type |-> (CHOOSE f \in field_info : TRUE).type,
                      v |-> v])
        ELSE IF held.k = "map"
          THEN (IF key_ok.ok
                THEN [has |-> TRUE, type |-> held.p[2], v |-> [v EXCEPT !.ic = key_ok.ic]]
                ELSE unsupported)
        ELSE unsupported
  IN IF impl.has
     THEN SetType(impl.v, id, IF Node(id).test_only THEN BoolType ELSE impl.type)
     ELSE impl.v

\* The deferred selects, innermost first: select_opts walked in reverse.
RECURSIVE ResolveSelectOperations(_, _)
ResolveSelectOperations(v, select_opts) ==
  IF select_opts = <<>> THEN v
  ELSE LET e == select_opts[Len(select_opts)]
       IN ResolveSelectOperations(
            ResolveSelectOperation(v, e, Node(e).name, operand(Node(e))),
            SubSeq(select_opts, 1, Len(select_opts) - 1))

\* root after n steps of root = &root->select_expr().operand()
RECURSIVE NthOperand(_, _)
NthOperand(id, n) == IF n <= 0 THEN id ELSE NthOperand(operand(Node(id)), n - 1)

\* ResolveQualifiedIdentifier, were the candidates offered in reverse order.
ResolveQualifiedIdentifierShortest(v, id, qualifiers) ==
  LET cands == Reverse(GenerateQualifiedCandidates(env.container, qualifiers))
      stop == FirstStop(cands, {i \in 1..Len(cands) :
                                ScopeLookup(v, cands[i].candidate) # {}})
      offered == Offered(cands, stop)
      v1 == [v EXCEPT !.gen_log =
               Append(@, [i \in 1..Len(offered) |-> offered[i].candidate])]
  IN IF stop > Len(cands)
     THEN ReportMissingReference(v1, id, FormatCandidate(qualifiers))
     ELSE LET decl == CHOOSE d \in ScopeLookup(v, cands[stop].candidate) : TRUE
              num_select_opts == Len(qualifiers) - cands[stop].segment_index - 1
              select_opts == [i \in 1..num_select_opts |-> NthOperand(id, i - 1)]
              root == NthOperand(id, num_select_opts)
              v2 == SetInstantiatedType([v1 EXCEPT !.attributes_ = Put(@, root, decl)],
                                        root, decl.type)
          IN ResolveSelectOperations(v2, select_opts)

ResolveQualifiedIdentifier(v, id, qualifiers) ==
  IF Len(qualifiers) = 1 THEN ResolveSimpleIdentifier(v, id, qualifiers[1])
  ELSE
    LET cands == GenerateQualifiedCandidates(env.container, qualifiers)
        stop == FirstStop(cands, {i \in 1..Len(cands) :
                                ScopeLookup(v, cands[i].candidate) # {}})
        offered == Offered(cands, stop)
        v1 == [v EXCEPT !.gen_log =
                 Append(@, [i \in 1..Len(offered) |-> offered[i].candidate])]
    IN IF stop > Len(cands)
       THEN ReportMissingReference(v1, id, FormatCandidate(qualifiers))
       ELSE LET decl == CHOOSE d \in ScopeLookup(v, cands[stop].candidate) : TRUE
                num_select_opts == Len(qualifiers) - cands[stop].segment_index - 1
                select_opts == [i \in 1..num_select_opts |-> NthOperand(id, i - 1)]
                root == NthOperand(id, num_select_opts)
                v2 == SetInstantiatedType([v1 EXCEPT !.attributes_ = Put(@, root, decl)],
                                          root, decl.type)
            IN ResolveSelectOperations(v2, select_opts)

\* The walk up expr_stack_ of PostVisitIdent, from stack position pos.
RECURSIVE WalkUp(_, _, _, _, _)
WalkUp(v, pos, qualifiers, root_candidate, deferred) ==
  IF pos <= 1
  THEN [qualifiers |-> qualifiers, root_candidate |-> root_candidate,
        receiver_call |-> 0, deferred |-> deferred]
  ELSE LET parent == v.expr_stack_[pos - 1]
           pn == Node(parent)
       IN IF pn.kind = "call" /\ pn.target = root_candidate
          THEN [qualifiers |-> qualifiers, root_candidate |-> root_candidate,
                receiver_call |-> parent, deferred |-> deferred]
          ELSE IF pn.kind # "select"
          THEN [qualifiers |-> qualifiers, root_candidate |-> root_candidate,
                receiver_call |-> 0, deferred |-> deferred]
          ELSE IF pn.test_only
          THEN [qualifiers |-> Append(qualifiers, pn.name), root_candidate |-> parent,
                receiver_call |-> 0, deferred |-> deferred \cup {parent}]
          ELSE WalkUp(v, pos - 1, Append(qualifiers, pn.name), parent,
                      deferred \cup {parent})

PostVisitIdent(v, id) ==
  IF Len(v.expr_stack_) = 1 THEN ResolveSimpleIdentifier(v, id, Node(id).name)
  ELSE
    LET w == WalkUp(v, Len(v.expr_stack_), <<Node(id).name>>,
                    v.expr_stack_[Len(v.expr_stack_)], v.deferred_select_operations_)
        v1 == [v EXCEPT !.deferred_select_operations_ = w.deferred]
    IN IF w.receiver_call = 0
       THEN ResolveQualifiedIdentifier(v1, w.root_candidate, w.qualifiers)
       ELSE [v1 EXCEPT !.maybe_namespaced_functions_ =
                          Put(@, w.receiver_call, w.qualifiers)]

PostVisitConst(v, id) ==
  LET ck == Node(id).ckind
  IN IF ck = "null" THEN SetType(v, id, NullType)
     ELSE IF ck = "bool" THEN SetType(v, id, BoolType)
     ELSE IF ck = "int" THEN SetType(v, id, IntType)
     ELSE IF ck = "uint" THEN SetType(v, id, UintType)
     ELSE IF ck = "double" THEN SetType(v, id, DoubleType)
     ELSE IF ck = "bytes" THEN SetType(v, id, BytesType)
     ELSE IF ck = "string" THEN SetType(v, id, StringType)
     ELSE IF ck = "duration" THEN SetType(v, id, DurationType)
     ELSE IF ck = "timestamp" THEN SetType(v, id, TimestampType)
     ELSE [v EXCEPT !.issues = Append(@, Issue("error", id,
                                   "unsupported constant type", <<>>, <<>>))]

\* The widening loop of PostVisitList over the elements from position i.
RECURSIVE ListValueType(_, _, _, _)
ListValueType(v, nd, i, overall) ==
  IF i > Len(nd.args) THEN overall
  ELSE LET t == GetTypeOrDyn(v, nd.args[i])
           value_type == IF nd.opt[i] /\ IsOptional(t) THEN t.p[1] ELSE t
       IN ListValueType(v, nd, i + 1,
            IF overall = {} THEN {value_type}
            ELSE IF {value_type} # overall THEN {DynType} ELSE overall)

\* PostVisitList, were the first element to decide the type.
PostVisitListFirstElement(v, id) ==
  IF Node(id).args = <<>> THEN SetInstantiatedType(v, id, FreeListType)
  ELSE SetType(v, id, ListType(GetTypeOrDyn(v, Node(id).args[1])))

PostVisitList(v, id) ==
  LET overall_value_type == ListValueType(v, Node(id), 1, {})
  IN IF overall_value_type # {}
     THEN SetType(v, id, ListType(CHOOSE t \in overall_value_type : TRUE))
     ELSE SetInstantiatedType(v, id, FreeListType)

\* IsSupportedKeyType, were double a key type too.
IsSupportedKeyTypeOrDouble(type) ==
  type.k \in {"bool", "int", "uint", "double", "string", "dyn"}

IsSupportedKeyType(type) == type.k \in {"bool", "int", "uint", "string", "dyn"}

\* overall = value_type when there is none yet, dyn when it differs.
Widen(overall, value_type) ==
  IF overall = {} THEN {value_type}
  ELSE IF {value_type} # overall THEN {DynType} ELSE overall

\* The loop of PostVisitMap over the entries from entry i; acc: the visitor
\* with the warnings so far, overall_key_type and overall_value_type.
RECURSIVE MapEntryTypes(_, _, _)
MapEntryTypes(nd, i, acc) ==
  IF i > Len(nd.opt) THEN acc
  ELSE LET key == entry_key(nd, i)
           key_type == GetTypeOrDyn(acc.v, key)
           t == GetTypeOrDyn(acc.v, entry_value(nd, i))
           value_type == IF nd.opt[i] /\ IsOptional(t) THEN t.p[1] ELSE t
       IN MapEntryTypes(nd, i + 1,
            [v |-> IF IsSupportedKeyType(key_type) THEN acc.v
                   ELSE [acc.v EXCEPT !.issues = Append(@, Issue("warning", key,
                           "unsupported map key type", <<>>, <<key_type>>))],
             key |-> Widen(acc.key, key_type),
             value |-> Widen(acc.value, value_type)])

\* PostVisitMap after its loop.
MapTyped(id, r) ==
  IF r.value # {} /\ r.key # {}
  THEN SetType(r.v, id, MapType(CHOOSE t \in r.key : TRUE, CHOOSE t \in r.value : TRUE))
  ELSE IF (r.value # {}) # (r.key # {})
  THEN StatusUpdate(r.v, "Map has mismatched key and value type inference resolution")
  ELSE SetInstantiatedType(r.v, id, FreeMapType)

PostVisitMap(v, id) ==
  MapTyped(id, MapEntryTypes(Node(id), 1, [v |-> v, key |-> {}, value |-> {}]))

\* One round of the loop of CheckFieldAssignments: field i of the struct.
FieldChecked(v, id, field, value_type, field_type, assignable) ==
  IF assignable.ok THEN [v EXCEPT !.ic = assignable.ic]
  ELSE [v EXCEPT !.issues = Append(@, Issue("error", id, "expected type of field",
                                        field, <<field_type, value_type>>))]

CheckField(v, nd, i, resolved_name) ==
  LET value_type == GetTypeOrDyn(v, nd.args[i])
      field_info == LookupStructField(env, resolved_name, nd.fields[i])
      declared == (CHOOSE f \in field_info : TRUE).type
      field_type == IF nd.opt[i] THEN OptionalType(declared) ELSE declared
  IN IF field_info = {}
     THEN ReportUndefinedField(v, field_id(nd, i), nd.fields[i], resolved_name)
     ELSE FieldChecked(v, field_id(nd, i), nd.fields[i], value_type, field_type,
                       IsAssignable(v.ic, value_type, field_type))

\* CheckFieldAssignments, were it to return at the first field in error.
RECURSIVE CheckFieldAssignmentsUntilError(_, _, _, _)
CheckFieldAssignmentsUntilError(v, nd, i, resolved_name) ==
  IF i > Len(nd.fields) THEN v
  ELSE IF Len(CheckField(v, nd, i, resolved_name).issues) > Len(v.issues)
  THEN CheckField(v, nd, i, resolved_name)
  ELSE CheckFieldAssignmentsUntilError(CheckField(v, nd, i, resolved_name), nd, i + 1,
                                       resolved_name)

\* The loop of CheckFieldAssignments over the fields from field i.
RECURSIVE CheckFieldAssignments(_, _, _, _)
CheckFieldAssignments(v, nd, i, resolved_name) ==
  IF i > Len(nd.fields) THEN v
  ELSE IF LookupStructFieldStatus(env, resolved_name, nd.fields[i]) # "ok"
  \* CEL_ASSIGN_OR_RETURN, and status_.Update of what is returned
  THEN StatusUpdate(v, LookupStructFieldStatus(env, resolved_name, nd.fields[i]))
  ELSE CheckFieldAssignments(CheckField(v, nd, i, resolved_name), nd, i + 1,
                             resolved_name)

\* The message types that are created by name without being structs.
WellKnownMessageTypes == {<<"google", "protobuf", "Int64Value">>}
IsWellKnownMessageType(name) == name \in WellKnownMessageTypes

\* PostVisitStruct, were the candidates offered in reverse order.
PostVisitStructShortest(v, id) ==
  LET cands == Reverse(GenerateCandidates(env.container, Node(id).name))
      stop == FirstStop(cands, {i \in 1..Len(cands) : LookupTypeName(env, cands[i]) # {}})
      resolved_type == (CHOOSE d \in LookupTypeName(env, cands[stop]) : TRUE).type
  IN IF stop > Len(cands) THEN ReportMissingReference(v, id, Node(id).name)
     ELSE IF resolved_type.k # "struct" /\ ~IsWellKnownMessageType(cands[stop])
     THEN [v EXCEPT !.issues = Append(@, Issue("error", id,
                       "does not support message creation", cands[stop], <<>>))]
     ELSE [v EXCEPT !.types_ = Put(@, id, resolved_type),
                    !.struct_types_ = Put(@, id, cands[stop])]

\* PostVisitStruct, were a lookup of the type name that failed read as a
\* name that is not found.
StructResolvedNotFound(v, id, cands, stop) ==
  IF stop > Len(cands) \/ LookupTypeNameStatus(env, cands[stop]) # "ok"
  THEN ReportMissingReference(v, id, Node(id).name)
  ELSE LET resolved_name == cands[stop]
           resolved_type == (CHOOSE d \in LookupTypeName(env, resolved_name) : TRUE).type
       IN IF resolved_type.k # "struct" /\ ~IsWellKnownMessageType(resolved_name)
          THEN [v EXCEPT !.issues = Append(@, Issue("error", id,
                            "does not support message creation", resolved_name, <<>>))]
          ELSE CheckFieldAssignments(
                 [v EXCEPT !.types_ = Put(@, id, resolved_type),
                           !.struct_types_ = Put(@, id, resolved_name)],
                 Node(id), 1, resolved_name)

\* PostVisitStruct after the enumeration of the candidates stopped at stop.
StructResolved(v, id, cands, stop) ==
  IF stop <= Len(cands) /\ LookupTypeNameStatus(env, cands[stop]) # "ok"
  THEN StatusUpdate(v, LookupTypeNameStatus(env, cands[stop]))
  ELSE IF stop > Len(cands) THEN ReportMissingReference(v, id, Node(id).name)
  ELSE LET resolved_name == cands[stop]
           resolved_type == (CHOOSE d \in LookupTypeName(env, resolved_name) : TRUE).type
       IN IF resolved_type.k # "struct" /\ ~IsWellKnownMessageType(resolved_name)
          THEN [v EXCEPT !.issues = Append(@, Issue("error", id,
                            "does not support message creation", resolved_name, <<>>))]
          ELSE CheckFieldAssignments(
                 [v EXCEPT !.types_ = Put(@, id, resolved_type),
                           !.struct_types_ = Put(@, id, resolved_name)],
                 Node(id), 1, resolved_name)

PostVisitStruct(v, id) ==
  LET cands == GenerateCandidates(env.container, Node(id).name)
      stop == FirstStop(cands, {i \in 1..Len(cands) :
                                  \/ LookupTypeNameStatus(env, cands[i]) # "ok"
                                  \/ LookupTypeName(env, cands[i]) # {}})
  IN StructResolved([v EXCEPT !.gen_log = Append(@, Offered(cands, stop))],
                    id, cands, stop)

PostVisitSelect(v, id) ==
  IF id \notin v.deferred_select_operations_
  THEN ResolveSelectOperation(v, id, Node(id).name, operand(Node(id)))
  ELSE v

\* ResolveFunctionCallShape, were it to stop at the first candidate that
\* declares a function, whatever its overloads.
ResolveFunctionCallByName(function_name, arg_count, is_receiver) ==
  LET cands == GenerateCandidates(env.container, function_name)
      stop == FirstStop(cands, {i \in 1..Len(cands) : LookupFunction(env, cands[i]) # {}})
  IN [decl |-> IF stop > Len(cands) THEN {} ELSE LookupFunction(env, cands[stop]),
      offered |-> Offered(cands, stop)]

\* The decl ResolveFunctionCallShape returns (none: {}), and the candidates
\* it offered.
ResolveFunctionCallShape(function_name, arg_count, is_receiver) ==
  LET cands == GenerateCandidates(env.container, function_name)
      Shaped(c) == \E d \in LookupFunction(env, c) :
                     \E i \in 1..Len(d.overloads) :
                        /\ d.overloads[i].member = is_receiver
                        /\ Len(d.overloads[i].parameters) = arg_count
      stop == FirstStop(cands, {i \in 1..Len(cands) : Shaped(cands[i])})
  IN [decl |-> IF stop > Len(cands) THEN {} ELSE LookupFunction(env, cands[stop]),
      offered |-> Offered(cands, stop)]

\* FunctionDecl::AddOverload: refused for an id or a signature already there.
AddOverloadOk(overloads, ovl) ==
  \A i \in 1..Len(overloads) :
     /\ overloads[i].id # ovl.id
     /\ ~(overloads[i].member = ovl.member /\ overloads[i].parameters = ovl.parameters)

\* The loop of AddOverload, were it to keep the first overload alone.
AddOverloadsFirst(result_decl, overloads) ==
  [decl |-> [result_decl EXCEPT !.overloads = SubSeq(overloads, 1, 1)], ok |-> TRUE]

RECURSIVE AddOverloads(_, _)
AddOverloads(result_decl, overloads) ==
  IF overloads = <<>> THEN [decl |-> result_decl, ok |-> TRUE]
  ELSE LET r == IF AddOverloadOk(result_decl.overloads, Head(overloads))
                THEN [result_decl EXCEPT !.overloads = Append(@, Head(overloads))]
                ELSE result_decl
           rest == AddOverloads(r, Tail(overloads))
       IN [decl |-> rest.decl,
           ok |-> rest.ok /\ AddOverloadOk(result_decl.overloads, Head(overloads))]

\* The arg_types ResolveFunctionOverloads collects.
ArgTypes(v, id, is_receiver) ==
  (IF is_receiver THEN <<GetTypeOrDyn(v, Node(id).target)>> ELSE <<>>)
  \o [i \in 1..Len(Node(id).args) |-> GetTypeOrDyn(v, Node(id).args[i])]

\* ResolveFunctionOverloads once the resolution is there; added: result_decl
\* with the resolution's overloads added.
RecordResolution(v, id, decl, is_namespaced, arg_types, resolution, added) ==
  IF ~resolution.has
  THEN [v EXCEPT !.issues = Append(@, Issue("error", id,
                   "found no matching overload", decl.name, arg_types))]
  ELSE [(IF added.ok THEN v
         ELSE StatusUpdate(v, "failed to add overload to resolved function declaration"))
        EXCEPT   !.functions_ = Put(@, id, [decl |-> added.decl,
                                            namespace_rewrite |-> is_namespaced]),
                 !.types_ = Put(@, id, resolution.result_type),
                 !.ic = resolution.ic]

RecordOverloads(v, id, decl, is_namespaced, arg_types, resolution) ==
  RecordResolution(v, id, decl, is_namespaced, arg_types, resolution,
                   AddOverloads(MakeFunctionDecl(decl.name, <<>>), resolution.overloads))

ResolveFunctionOverloads(v, id, decl, arg_count, is_receiver, is_namespaced) ==
  RecordOverloads(v, id, decl, is_namespaced, ArgTypes(v, id, is_receiver),
                  ResolveOverload(v.ic, decl, ArgTypes(v, id, is_receiver), is_receiver))

Logged(v, offered) == [v EXCEPT !.gen_log = Append(@, offered)]

\* The part of PostVisitCall after the disambiguation of namespaced
\* functions, once ResolveFunctionCallShape has answered shape.
ResolveCallShaped(v, id, arg_count, shape) ==
  IF shape.decl # {}
  THEN ResolveFunctionOverloads(Logged(v, shape.offered), id,
                                CHOOSE d \in shape.decl : TRUE, arg_count,
                                has_target(Node(id)), FALSE)
  ELSE ReportMissingReference(Logged(v, shape.offered), id, Node(id).name)

ArgCount(nd) == Len(nd.args) + (IF has_target(nd) THEN 1 ELSE 0)

ResolveCall(v, id) ==
  ResolveCallShaped(v, id, ArgCount(Node(id)),
    ResolveFunctionCallShape(Node(id).name, ArgCount(Node(id)), has_target(Node(id))))

\* The disambiguation, were the target left as deferred when no namespaced
\* function is found.
ResolveNamespacedUnresolved(v, id, qualifiers, shape) ==
  IF shape.decl # {}
  THEN ResolveFunctionOverloads(Logged(v, shape.offered), id,
                                CHOOSE d \in shape.decl : TRUE,
                                Len(Node(id).args), FALSE, TRUE)
  ELSE ResolveCall(Logged(v, shape.offered), id)

\* The disambiguation of a namespaced function, once
\* ResolveFunctionCallShape has answered shape for the namespaced name.
ResolveNamespaced(v, id, qualifiers, shape) ==
  IF shape.decl # {}
  THEN ResolveFunctionOverloads(Logged(v, shape.offered), id,
                                CHOOSE d \in shape.decl : TRUE,
                                Len(Node(id).args), FALSE, TRUE)
  ELSE ResolveCall(ResolveQualifiedIdentifier(Logged(v, shape.offered),
                                              Node(id).target, qualifiers), id)

\* PostVisitCall, were the target read as a variable before any namespaced
\* function is looked for.
PostVisitCallTargetFirst(v, id) ==
  IF id \in DOMAIN v.maybe_namespaced_functions_
  THEN ResolveCall(ResolveQualifiedIdentifier(v, Node(id).target,
                                              v.maybe_namespaced_functions_[id]), id)
  ELSE ResolveCall(v, id)

PostVisitCall(v, id) ==
  IF id \in DOMAIN v.maybe_namespaced_functions_
  THEN ResolveNamespaced(v, id, v.maybe_namespaced_functions_[id],
         ResolveFunctionCallShape(
           FormatCandidate(v.maybe_namespaced_functions_[id]) \o Node(id).name,
           Len(Node(id).args), FALSE))
  ELSE ResolveCall(v, id)

PreVisitComprehension(v, id) ==
  LET accu_scope == Len(v.comprehension_vars_) + 1
      iter_scope == accu_scope + 1
  IN [v EXCEPT !.comprehension_vars_ =
                  @ \o <<MakeNestedScope(v.current_scope_), MakeNestedScope(accu_scope)>>,
               !.comprehension_scopes_ =
                  Append(@, [comprehension_expr |-> id, parent |-> v.current_scope_,
                             accu_scope |-> accu_scope, iter_scope |-> iter_scope])]

\* PostVisitComprehension, were the scope of the comprehension left on the
\* stack.
PostVisitComprehensionKept(v, id) ==
  SetType(v, id, GetTypeOrDyn(v, result(Node(id))))

PostVisitComprehension(v, id) ==
  LET v1 == [v EXCEPT !.comprehension_scopes_ = SubSeq(@, 1, Len(@) - 1)]
  IN SetType(v1, id, GetTypeOrDyn(v1, result(Node(id))))

\* PreVisitComprehensionSubexpression, were every part to be visited in the
\* iter scope.
PreVisitComprehensionSubexpressionIterScope(v, id, comprehension_arg) ==
  IF v.comprehension_scopes_ = <<>> THEN v
  ELSE [v EXCEPT !.current_scope_ =
          v.comprehension_scopes_[Len(v.comprehension_scopes_)].iter_scope]

PreVisitComprehensionSubexpression(v, id, comprehension_arg) ==
  IF v.comprehension_scopes_ = <<>>
  THEN StatusUpdate(v, "Comprehension scope stack is empty in comprehension")
  ELSE LET scope == v.comprehension_scopes_[Len(v.comprehension_scopes_)]
       IN IF scope.comprehension_expr # id
          THEN StatusUpdate(v, "Comprehension scope stack broken")
          ELSE [v EXCEPT !.current_scope_ =
                  IF comprehension_arg = "LOOP_CONDITION" THEN scope.accu_scope
                  ELSE IF comprehension_arg = "LOOP_STEP" THEN scope.iter_scope
                  ELSE IF comprehension_arg = "RESULT" THEN scope.accu_scope
                  ELSE scope.parent]

\* PostVisitComprehensionSubexpression, were iter_var to take the value type
\* of a map range.
PostVisitComprehensionSubexpressionMapValue(v, id, comprehension_arg) ==
  IF v.comprehension_scopes_ = <<>>
  THEN StatusUpdate(v, "Comprehension scope stack is empty in comprehension")
  ELSE
    LET scope == v.comprehension_scopes_[Len(v.comprehension_scopes_)]
        nd == Node(id)
        v1 == [v EXCEPT !.current_scope_ = scope.parent]
        range_type == GetTypeOrDyn(v1, iter_range(nd))
        iter_type == IF range_type.k = "list" THEN range_type.p[1]
                     ELSE IF range_type.k = "map" THEN range_type.p[2]
                     ELSE DynType
        v2 == IF range_type.k \in {"list", "map", "dyn"} THEN v1
              ELSE [v1 EXCEPT !.issues = Append(@, Issue("error", id,
                       "cannot be the range of a comprehension", <<>>, <<range_type>>))]
    IN IF scope.comprehension_expr # id
       THEN StatusUpdate(v, "Comprehension scope stack broken")
       ELSE IF comprehension_arg = "ACCU_INIT"
       THEN [v1 EXCEPT !.comprehension_vars_ =
               InsertVariableIfAbsent(@, scope.accu_scope,
                 MakeVariableDecl(nd.accu_var, GetTypeOrDyn(v1, accu_init(nd)),
                                  scope.accu_scope))]
       ELSE IF comprehension_arg = "ITER_RANGE"
       THEN [v2 EXCEPT !.comprehension_vars_ =
               InsertVariableIfAbsent(@, scope.iter_scope,
                 MakeVariableDecl(nd.iter_var, iter_type, scope.iter_scope))]
       ELSE IF comprehension_arg = "RESULT"
       \* types_[&expr] = types_[&expr]: operator[] inserts a default Type
       THEN (IF id \in DOMAIN v1.types_ THEN v1 ELSE SetType(v1, id, DynType))
       ELSE v1

PostVisitComprehensionSubexpression(v, id, comprehension_arg) ==
  IF v.comprehension_scopes_ = <<>>
  THEN StatusUpdate(v, "Comprehension scope stack is empty in comprehension")
  ELSE
    LET scope == v.comprehension_scopes_[Len(v.comprehension_scopes_)]
        nd == Node(id)
        v1 == [v EXCEPT !.current_scope_ = scope.parent]
        range_type == GetTypeOrDyn(v1, iter_range(nd))
        iter_type == IF range_type.k = "list" THEN range_type.p[1]
                     ELSE IF range_type.k = "map" THEN range_type.p[1]
                     ELSE DynType
        v2 == IF range_type.k \in {"list", "map", "dyn"} THEN v1
              ELSE [v1 EXCEPT !.issues = Append(@, Issue("error", id,
                       "cannot be the range of a comprehension", <<>>, <<range_type>>))]
    IN IF scope.comprehension_expr # id
       THEN StatusUpdate(v, "Comprehension scope stack broken")
       ELSE IF comprehension_arg = "ACCU_INIT"
       THEN [v1 EXCEPT !.comprehension_vars_ =
               InsertVariableIfAbsent(@, scope.accu_scope,
                 MakeVariableDecl(nd.accu_var, GetTypeOrDyn(v1, accu_init(nd)),
                                  scope.accu_scope))]
       ELSE IF comprehension_arg = "ITER_RANGE"
       THEN [v2 EXCEPT !.comprehension_vars_ =
               InsertVariableIfAbsent(@, scope.iter_scope,
                 MakeVariableDecl(nd.iter_var, iter_type, scope.iter_scope))]
       ELSE IF comprehension_arg = "RESULT"
       \* types_[&expr] = types_[&expr]: operator[] inserts a default Type
       THEN (IF id \in DOMAIN v1.types_ THEN v1 ELSE SetType(v1, id, DynType))
       ELSE v1

\* --------------------------------------------------------------- FlattenType
\* ast_internal::Type: k is the case of the union, n its primitive or name.
AstType(k, n, p) == [k |-> k, n |-> n, p |-> p]
AstUnspecified == AstType("unspecified", <<>>, <<>>)
AstDynamicType == AstType("dyn", <<>>, <<>>)
AstPrimitive(prim) == AstType("primitive", <<prim>>, <<>>)
AstWrapper(prim) == AstType("wrapper", <<prim>>, <<>>)
AstWellKnown(w) == AstType("well_known", <<w>>, <<>>)

FlatOk(t) == [ok |-> TRUE, type |-> t, status |-> "ok"]
FlatError(status) == [ok |-> FALSE, type |-> AstUnspecified, status |-> status]
\* absl::StrCat("Unsupported type: ", type.DebugString())
UnsupportedType(type) ==
  IF type.k = "unknown" THEN "Unsupported type: *unknown*"
  ELSE IF type.k = "function" THEN "Unsupported type: function"
  ELSE "Unsupported type"

RECURSIVE FlattenType(_)
FlattenParams(params) == [i \in 1..Len(params) |-> FlattenType(params[i])]
ParamsOk(flat) == \A i \in 1..Len(flat) : flat[i].ok
ParamTypes(flat) == [i \in 1..Len(flat) |-> flat[i].type]
\* CEL_ASSIGN_OR_RETURN: the status of the first parameter that failed.
FirstFailed(flat) ==
  flat[CHOOSE i \in 1..Len(flat) :
         ~flat[i].ok /\ \A j \in 1..(i - 1) : flat[j].ok].status

FlattenAbstractType(type) ==
  LET ps == FlattenParams(type.p)
  IN IF ParamsOk(ps) THEN FlatOk(AstType("abstract", type.n, ParamTypes(ps)))
     ELSE FlatError(FirstFailed(ps))

FlattenMapType(type) ==
  LET ps == FlattenParams(type.p)
  IN IF ParamsOk(ps) THEN FlatOk(AstType("map", <<>>, ParamTypes(ps)))
     ELSE FlatError(FirstFailed(ps))

FlattenListType(type) ==
  LET ps == FlattenParams(type.p)
  IN IF ParamsOk(ps) THEN FlatOk(AstType("list", <<>>, ParamTypes(ps)))
     ELSE FlatError(FirstFailed(ps))

FlattenMessageType(type) == FlatOk(AstType("message", type.n, <<>>))

FlattenTypeType(type) ==
  IF Len(type.p) > 1 THEN FlatError(UnsupportedType(type))
  ELSE IF type.p = <<>> THEN FlatOk(AstType("type", <<>>, <<AstUnspecified>>))
  ELSE LET ps == FlattenParams(type.p)
       IN IF ParamsOk(ps) THEN FlatOk(AstType("type", <<>>, ParamTypes(ps)))
          ELSE FlatError(FirstFailed(ps))

\* A free type_param, were FlattenType to keep it as a type parameter.
FlattenTypeParamKept(type) == FlatOk(AstType("type_param", type.n, <<>>))

\* A free type_param that reaches FlattenType.
FlattenTypeParam(type) == FlatOk(AstDynamicType)

FlattenType(type) ==
  LET k == type.k
  IN IF k = "dyn" THEN FlatOk(AstDynamicType)
     ELSE IF k = "error" THEN FlatOk(AstType("error", <<>>, <<>>))
     ELSE IF k = "null" THEN FlatOk(AstType("null", <<>>, <<>>))
     ELSE IF k = "bool" THEN FlatOk(AstPrimitive("bool"))
     ELSE IF k = "int" THEN FlatOk(AstPrimitive("int64"))
     ELSE IF k = "uint" THEN FlatOk(AstPrimitive("uint64"))
     ELSE IF k = "double" THEN FlatOk(AstPrimitive("double"))
     ELSE IF k = "string" THEN FlatOk(AstPrimitive("string"))
     ELSE IF k = "bytes" THEN FlatOk(AstPrimitive("bytes"))
     ELSE IF k = "duration" THEN FlatOk(AstWellKnown("duration"))
     ELSE IF k = "timestamp" THEN FlatOk(AstWellKnown("timestamp"))
     ELSE IF k = "struct" THEN FlattenMessageType(type)
     ELSE IF k = "list" THEN FlattenListType(type)
     ELSE IF k = "map" THEN FlattenMapType(type)
     ELSE IF k = "opaque" THEN FlattenAbstractType(type)
     ELSE IF k = "bool_wrapper" THEN FlatOk(AstWrapper("bool"))
     ELSE IF k = "int_wrapper" THEN FlatOk(AstWrapper("int64"))
     ELSE IF k = "uint_wrapper" THEN FlatOk(AstWrapper("uint64"))
     ELSE IF k = "double_wrapper" THEN FlatOk(AstWrapper("double"))
     ELSE IF k = "string_wrapper" THEN FlatOk(AstWrapper("string"))
     ELSE IF k = "bytes_wrapper" THEN FlatOk(AstWrapper("bytes"))
     ELSE IF k = "type_param" THEN FlattenTypeParam(type)
     ELSE IF k = "type" THEN FlattenTypeType(type)
     ELSE IF k = "any" THEN FlatOk(AstWellKnown("any"))
     ELSE FlatError(UnsupportedType(type))

\* ----------------------------------------------------------- ResolveRewriter
\* PostVisitRewrite(expr): the AST, with the node rewritten and the maps
\* filled, and the rewriter's status.
RewriteReference(a, id) ==
  IF id \in DOMAIN vis.attributes_
  THEN LET decl == vis.attributes_[id]
       IN [a EXCEPT !.reference_map = Put(@, id, [name |-> decl.name, overload_id |-> <<>>]),
                    \* mutable_ident_expr(): the node becomes an identifier
                    !.nodes[id] = IF @.kind = "ident" THEN [@ EXCEPT !.name = decl.name]
                                  ELSE [N0 EXCEPT !.kind = "ident", !.name = decl.name]]
  ELSE IF id \in DOMAIN vis.functions_
  THEN LET decl == vis.functions_[id].decl
           needs_rewrite == vis.functions_[id].namespace_rewrite
           old == IF id \in DOMAIN a.reference_map THEN a.reference_map[id].overload_id
                  ELSE <<>>
       IN [a EXCEPT !.reference_map =
                       Put(@, id, [name |-> decl.name,
                                   overload_id |-> old \o [i \in 1..Len(decl.overloads) |->
                                                             decl.overloads[i].id]]),
                    !.nodes[id].name = decl.name,
                    !.nodes[id].target = IF needs_rewrite THEN 0 ELSE @]
  ELSE IF id \in DOMAIN vis.struct_types_
  THEN [a EXCEPT !.reference_map =
                    Put(@, id, [name |-> vis.struct_types_[id], overload_id |-> <<>>]),
                 !.nodes[id].name = IF a.nodes[id].kind = "struct"
                                    THEN vis.struct_types_[id] ELSE @]
  ELSE a

\* PostVisitRewrite, were the types of lists left out of the type map.
PostVisitRewriteNoLists(a, r, id) ==
  LET a1 == RewriteReference(a, id)
      flattened_type == FlattenType(FinalizeType(vis.ic, vis.types_[id]))
  IN IF id \notin DOMAIN vis.types_ \/ vis.types_[id].k = "list"
     THEN [ast |-> a1, rw |-> r]
     ELSE IF ~flattened_type.ok
     THEN [ast |-> a1,
           rw |-> [r EXCEPT !.status_ = IF @ = "ok" THEN flattened_type.status ELSE @,
                            !.status_log = Append(@, flattened_type.status)]]
     ELSE [ast |-> [a1 EXCEPT !.type_map = Put(@, id, flattened_type.type)], rw |-> r]

PostVisitRewrite(a, r, id) ==
  LET a1 == RewriteReference(a, id)
      flattened_type == FlattenType(FinalizeType(vis.ic, vis.types_[id]))
  IN IF id \notin DOMAIN vis.types_ THEN [ast |-> a1, rw |-> r]
     ELSE IF ~flattened_type.ok
     THEN [ast |-> a1,
           rw |-> [r EXCEPT !.status_ = IF @ = "ok" THEN flattened_type.status ELSE @,
                            !.status_log = Append(@, flattened_type.status)]]
     ELSE [ast |-> [a1 EXCEPT !.type_map = Put(@, id, flattened_type.type)], rw |-> r]

\* ---------------------------------------------------------------- AstTraverse
Event(ev, id, arg) == [ev |-> ev, id |-> id, arg |-> arg]
Visit(id) == <<Event("pre", id, "none")>>

ComprehensionArgs == <<"ITER_RANGE", "ACCU_INIT", "LOOP_CONDITION", "LOOP_STEP", "RESULT">>

\* What the traversal does for expression id after its pre-visit, in order.
Pending(id) ==
  LET nd == Node(id)
      children ==
        IF nd.kind = "comprehension"
        THEN ConcatAll([i \in 1..5 |->
               <<Event("pre_sub", id, ComprehensionArgs[i])>> \o Visit(nd.args[i])
               \o <<Event("post_sub", id, ComprehensionArgs[i])>>])
        ELSE (IF nd.target # 0 THEN Visit(nd.target) ELSE <<>>)
             \o ConcatAll([i \in 1..Len(nd.args) |-> Visit(nd.args[i])])
  IN children \o <<Event("post", id, "none")>>

Top == work[Len(work)]
Pop == SubSeq(work, 1, Len(work) - 1)

\* The nodes AstRewrite post-visits, in order.
RECURSIVE PostOrder(_, _)
PostOrder(nodes, id) ==
  LET nd == nodes[id]
  IN (IF nd.target # 0 THEN PostOrder(nodes, nd.target) ELSE <<>>)
     \o ConcatAll([i \in 1..Len(nd.args) |-> PostOrder(nodes, nd.args[i])])
     \o <<id>>

\* -------------------------------------------------------------------- inputs
\* The struct S of the environments: field a is an S again, field b an int.
SName == <<"S">>
SFields == {[struct |-> SName, name |-> <<"a">>, type |-> StructType(SName)],
            [struct |-> SName, name |-> <<"b">>, type |-> IntType]}
\* The types by name: the structs S and a.S, the well-known wrapper message
\* Int64Value, and E, a name of a type that is no message.
Int64Value == <<"google", "protobuf", "Int64Value">>
EnvTypes == {[name |-> SName, type |-> StructType(SName)],
             [name |-> <<"a", "S">>, type |-> StructType(<<"a", "S">>)],
             [name |-> Int64Value, type |-> IntWrapperType],
             [name |-> <<"E">>, type |-> IntType]}
EnvFields == SFields
             \cup {[struct |-> <<"a", "S">>, name |-> <<"b">>, type |-> StringType],
                   [struct |-> Int64Value, name |-> <<"value">>, type |-> IntType]}

\* All names of 1..n segments over the segments segs.
RECURSIVE NamesUpTo(_, _)
NamesUpTo(segs, n) ==
  IF n = 0 THEN {}
  ELSE LET shorter == NamesUpTo(segs, n - 1)
       IN {<<s>> : s \in segs} \cup shorter \cup {Append(q, s) : q \in shorter, s \in segs}

\* The container a.b.a.b... of n segments.
ContainerOf(n) == [i \in 1..n |-> IF i % 2 = 1 THEN "a" ELSE "b"]
Containers == {ContainerOf(n) : n \in 0..MaxContainer}

\* The chain q1.q2...qk as an expression: an identifier under k-1 selects.
RECURSIVE MkChain(_)
MkChain(q) ==
  IF Len(q) = 1 THEN MkIdent(<<q[1]>>)
  ELSE MkSelect(MkChain(SubSeq(q, 1, Len(q) - 1)), <<q[Len(q)]>>, FALSE)

\* A variable's type is decided by the last segment of its name.
VarType(name) == IF name[Len(name)] = "a" THEN StructType(SName) ELSE IntType
EnvVar(name) == MakeVariableDecl(name, VarType(name), 0)

MakeEnv(container, variables, functions) ==
  [container |-> container, variables |-> variables, functions |-> functions,
   types |-> EnvTypes, fields |-> EnvFields, unavailable |-> {}]

\* Identifier chains in environments that declare up to two variables.
VarNames == {<<"a">>, <<"b">>, <<"a", "a">>, <<"a", "b">>, <<"b", "a">>, <<"b", "b">>,
             <<"a", "a", "b">>, <<"a", "b", "a">>, <<"a", "b", "b">>}
VarSets == {{}} \cup {{EnvVar(n)} : n \in VarNames}
           \cup {{EnvVar(n), EnvVar(m)} : n \in VarNames, m \in VarNames}
ChainInputs ==
  {[env |-> MakeEnv(c, vs, {}), nodes |-> MkChain(q)] :
     c \in Containers, vs \in VarSets, q \in NamesUpTo({"a", "b"}, MaxChain)}

\* Calls f(args) and target.f(args) in environments that declare up to two
\* of the functions f, a.f and a.b.f.
TypeParamA == TypeParamType(<<"A">>)
PlainOverloads ==
  <<MakeOverload("f_int", FALSE, <<IntType>>, IntType),
    MakeOverload("f_string", FALSE, <<StringType>>, StringType),
    MakeOverload("f_dyn", FALSE, <<DynType>>, IntType),
    MakeOverload("f_none", FALSE, <<>>, IntType)>>
MemberOverloads ==
  <<MakeOverload("m_int", TRUE, <<IntType>>, IntType),
    MakeOverload("m_struct", TRUE, <<StructType(SName)>>, BoolType),
    MakeOverload("m_int_int", TRUE, <<IntType, IntType>>, IntType)>>
ListOverloads ==
  <<MakeOverload("f_list", FALSE, <<ListType(TypeParamA)>>, TypeParamA),
    MakeOverload("m_list", TRUE, <<ListType(TypeParamA)>>, ListType(TypeParamA))>>
FunctionNames == {<<"f">>, <<"a", "f">>, <<"a", "b", "f">>}
FunctionDecls ==
  {MakeFunctionDecl(n, o) : n \in FunctionNames,
                            o \in {PlainOverloads, MemberOverloads, ListOverloads}}
FunctionSets ==
  {{}} \cup {{d} : d \in FunctionDecls}
  \cup {pair \in {{d, e} : d \in FunctionDecls, e \in FunctionDecls} :
          \A d \in pair, e \in pair : d.name = e.name => d = e}
CallTargets == {<<>>, MkConst("int"), MkChain(<<"a">>), MkChain(<<"a", "b">>)}
CallArgs == {<<>>, <<MkConst("int")>>, <<MkConst("string")>>, <<MkList(<<>>, <<>>)>>,
             <<MkList(<<MkConst("int")>>, <<FALSE>>)>>}
CallInputs ==
  {[env |-> MakeEnv(c, vs, fs), nodes |-> MkCall(<<"f">>, t, as)] :
     c \in {<<>>, <<"a">>},
     vs \in {{}, {EnvVar(<<"a">>)}, {EnvVar(<<"a">>), EnvVar(<<"a", "b">>)}},
     fs \in FunctionSets, t \in CallTargets, as \in CallArgs}

\* Comprehensions over x and y: each part is the identifier x or y, or (in
\* one part) a second comprehension.
CompVar(name) ==
  MakeVariableDecl(name, IF name = <<"x">> THEN ListType(IntType) ELSE IntType, 0)
CompEnvs ==
  {MakeEnv(c, {CompVar(n) : n \in ns}, {}) :
     c \in {<<>>, <<"a">>}, ns \in SUBSET {<<"x">>, <<"y">>}}
XY == {<<"x">>, <<"y">>}
MkComp(iv, av, parts) ==
  MkComprehension(iv, parts[1], av, parts[2], parts[3], parts[4], parts[5])
FlatComps ==
  {MkComp(iv, av, [i \in 1..5 |-> MkIdent(ids[i])]) :
     iv \in {<<"x">>}, av \in XY, ids \in [1..5 -> XY]}
InnerParts ==
  {[i \in 1..5 |-> MkIdent(<<"x">>)], [i \in 1..5 |-> MkIdent(<<"y">>)],
   <<MkIdent(<<"x">>), MkIdent(<<"y">>), MkIdent(<<"y">>),
     MkList(<<MkIdent(<<"x">>), MkIdent(<<"y">>)>>, <<FALSE, FALSE>>),
     MkIdent(<<"y">>)>>}
NestedComps ==
  {MkComp(<<"x">>, <<"y">>,
          [i \in 1..5 |-> IF i = at
                          THEN MkComp(vs[1], vs[2], inner)
                          ELSE MkIdent(outer)]) :
     at \in 1..5, vs \in {<<<<"x">>, <<"y">>>>, <<<<"y">>, <<"x">>>>},
     inner \in InnerParts, outer \in XY}
CompInputs ==
  {[env |-> e, nodes |-> n] : e \in CompEnvs, n \in FlatComps \cup NestedComps}

\* Aggregates, selects and calls over variables of the types that matter
\* to them; u and w are declared nowhere.
MaxElems == 3
MaxEntries == 2
TypedVars ==
  {MakeVariableDecl(<<"d">>, DynType, 0), MakeVariableDecl(<<"n">>, AnyType, 0),
   MakeVariableDecl(<<"s">>, StructType(SName), 0),
   MakeVariableDecl(<<"s", "b">>, StringType, 0),
   MakeVariableDecl(<<"m">>, MapType(StringType, IntType), 0),
   MakeVariableDecl(<<"k">>, MapType(IntType, IntType), 0),
   MakeVariableDecl(<<"l">>, ListType(IntType), 0),
   MakeVariableDecl(<<"o">>, OptionalType(IntType), 0),
   MakeVariableDecl(<<"os">>, OptionalType(StructType(SName)), 0),
   MakeVariableDecl(<<"om">>, OptionalType(MapType(DynType, StringType)), 0)}
TypedEnv(c, fs) == MakeEnv(c, TypedVars, fs)
SeqsUpTo(S, n) == UNION {[1..k -> S] : k \in 0..n}
Frags(es) == [i \in 1..Len(es) |-> es[i].frag]
Opts(es) == [i \in 1..Len(es) |-> es[i].opt]

ListElems ==
  [frag : {MkConst("int"), MkConst("string"), MkIdent(<<"o">>), MkIdent(<<"u">>),
           MkList(<<>>, <<>>)},
   opt : BOOLEAN]
ListInputs ==
  {[env |-> TypedEnv(<<>>, {}), nodes |-> MkList(Frags(es), Opts(es))] :
     es \in SeqsUpTo(ListElems, MaxElems)}

MapEntries ==
  {[key |-> key, frag |-> val[1], opt |-> val[2]] :
     key \in {MkConst("int"), MkConst("string"), MkConst("double"), MkIdent(<<"u">>)},
     val \in {<<MkConst("int"), FALSE>>, <<MkIdent(<<"o">>), FALSE>>,
              <<MkIdent(<<"o">>), TRUE>>}}
MapInputs ==
  {[env |-> TypedEnv(<<>>, {}),
    nodes |-> MkMap(ConcatAll([i \in 1..Len(es) |-> <<es[i].key, es[i].frag>>]),
                    Opts(es))] :
     es \in SeqsUpTo(MapEntries, MaxEntries)}

StructFields ==
  [name : {<<"b">>, <<"c">>},
   frag : {MkConst("int"), MkConst("string"), MkIdent(<<"o">>), MkIdent(<<"u">>)},
   opt : BOOLEAN]
FieldNames(es) == [i \in 1..Len(es) |-> es[i].name]
StructInputs ==
  {[env |-> TypedEnv(<<>>, {}),
    nodes |-> MkStruct(SName, FieldNames(es), Frags(es), Opts(es))] :
     es \in SeqsUpTo(StructFields, MaxEntries)}
  \cup
  {[env |-> TypedEnv(c, {}), nodes |-> MkStruct(nm, FieldNames(es), Frags(es), Opts(es))] :
     c \in {<<>>, <<"a">>},
     nm \in {SName, <<"a", "S">>, <<"E">>, <<"T">>, Int64Value},
     es \in {<<>>, <<[name |-> <<"b">>, frag |-> MkConst("int"), opt |-> FALSE]>>,
             <<[name |-> <<"value">>, frag |-> MkConst("string"), opt |-> FALSE]>>}}

SelectOperands ==
  {MkIdent(<<v>>) : v \in {"d", "n", "s", "m", "k", "l", "o", "os", "om", "u"}}
  \cup {MkConst("int"), MkList(<<>>, <<>>), MkChain(<<"s", "a">>),
        MkMap(<<>>, <<>>), MkSelect(MkIdent(<<"s">>), <<"a">>, TRUE),
        MkSelect(MkIdent(<<"u">>), <<"a">>, TRUE)}
SelectInputs ==
  {[env |-> TypedEnv(c, {}), nodes |-> MkSelect(e, <<f>>, to)] :
     c \in {<<>>, <<"a">>}, e \in SelectOperands, f \in {"a", "b", "c"}, to \in BOOLEAN}

\* Calls whose receiver target and arguments are in error.
ErrorCallInputs ==
  {[env |-> TypedEnv(<<>>, fs), nodes |-> MkCall(<<"f">>, t, as)] :
     fs \in {{}, {MakeFunctionDecl(<<"f">>, PlainOverloads \o MemberOverloads)}},
     t \in {<<>>, MkIdent(<<"u">>), MkChain(<<"u", "w">>), MkIdent(<<"d">>)},
     as \in {<<MkIdent(<<"w">>)>>, <<MkConst("int"), MkIdent(<<"w">>)>>,
             <<MkIdent(<<"u">>), MkIdent(<<"w">>)>>,
             <<MkList(<<MkIdent(<<"u">>), MkIdent(<<"w">>)>>, <<FALSE, FALSE>>)>>}}

\* Comprehensions over ranges of the types that matter to iter_var, whose
\* loop_step reads iter_var.
RangeInputs ==
  {[env |-> TypedEnv(c, {}),
    nodes |-> MkComp(<<"x">>, <<"y">>,
                     <<range, MkConst("int"), MkIdent(<<"y">>), MkIdent(<<"x">>),
                       MkIdent(<<"y">>)>>)] :
     c \in {<<>>, <<"a">>},
     range \in {MkIdent(<<"m">>), MkIdent(<<"k">>), MkIdent(<<"l">>), MkIdent(<<"d">>),
                MkIdent(<<"s">>), MkIdent(<<"o">>), MkIdent(<<"u">>),
                MkList(<<>>, <<>>), MkConst("string"),
                MkSelect(MkIdent(<<"s">>), <<"c">>, FALSE)}}

\* Calls f(e1, e2) of a function whose overloads bind their type parameter
\* on the first argument before the second argument decides.
RollbackOverloads ==
  <<MakeOverload("r_list_int", FALSE, <<ListType(TypeParamA), IntType>>, TypeParamA),
    MakeOverload("r_list_string", FALSE, <<ListType(TypeParamA), StringType>>,
                 ListType(TypeParamA)),
    MakeOverload("r_same", FALSE, <<TypeParamA, TypeParamA>>, TypeParamA)>>
RollbackInputs ==
  {[env |-> TypedEnv(<<>>, {MakeFunctionDecl(<<"f">>, os)}),
    nodes |-> MkCall(<<"f">>, <<>>, <<e1, e2>>)] :
     os \in {RollbackOverloads, SubSeq(RollbackOverloads, 1, 1),
             SubSeq(RollbackOverloads, 3, 3)},
     e1 \in {MkList(<<>>, <<>>), MkList(<<MkConst("int")>>, <<FALSE>>), MkConst("int"),
             MkIdent(<<"l">>)},
     e2 \in {MkConst("int"), MkConst("string"), MkConst("double"), MkList(<<>>, <<>>)}}

\* Comprehensions over x and y in environments that declare variables of
\* those names under the container a.
ShadowVars ==
  {MakeVariableDecl(<<"a", "x">>, StringType, 0),
   MakeVariableDecl(<<"a", "y">>, StringType, 0),
   MakeVariableDecl(<<"x">>, BoolType, 0)}
ShadowInputs ==
  {[env |-> MakeEnv(c, vs, {}),
    nodes |-> MkComp(<<"x">>, <<"y">>,
                     <<MkList(<<MkConst("int")>>, <<FALSE>>), MkConst("int"),
                       MkIdent(cond), MkIdent(step), MkIdent(<<"y">>)>>)] :
     c \in {<<>>, <<"a">>}, vs \in SUBSET ShadowVars, cond \in XY, step \in XY}

\* Environments whose type provider fails for some names, with variables of
\* types that FlattenType does not support.
Unavailable ==
  {[kind |-> "type", name |-> SName, field |-> <<>>, status |-> "S: provider failed"],
   [kind |-> "type", name |-> <<"a", "S">>, field |-> <<>>,
    status |-> "a.S: provider failed"],
   [kind |-> "field", name |-> SName, field |-> <<"a">>,
    status |-> "S.a: provider failed"],
   [kind |-> "field", name |-> SName, field |-> <<"b">>,
    status |-> "S.b: provider failed"]}
UnavailableSets == {us \in SUBSET Unavailable : Cardinality(us) <= 2}
FailureVars ==
  TypedVars \cup {MakeVariableDecl(<<"q">>, UnknownType, 0),
                  MakeVariableDecl(<<"g">>, FunctionType(IntType, <<>>), 0)}
FailureEnv(c, us) == [MakeEnv(c, FailureVars, {}) EXCEPT !.unavailable = us]
FailureFrags ==
  {MkConst("int"), MkIdent(<<"q">>), MkIdent(<<"g">>), MkIdent(<<"u">>),
   MkSelect(MkIdent(<<"s">>), <<"a">>, FALSE),
   MkSelect(MkSelect(MkIdent(<<"s">>), <<"a">>, FALSE), <<"b">>, FALSE),
   MkStruct(SName, <<>>, <<>>, <<>>),
   MkStruct(SName, <<<<"b">>, <<"a">>>>, <<MkConst("string"), MkConst("int")>>,
            <<FALSE, FALSE>>)}
FailureAsts ==
  FailureFrags
  \cup {MkList(<<e1, e2>>, <<FALSE, FALSE>>) : e1 \in FailureFrags, e2 \in FailureFrags}
  \cup {MkMap(<<MkConst("double"), e>>, <<FALSE>>) : e \in FailureFrags}
  \cup {MkList(<<MkIdent(<<"u">>), MkSelect(MkIdent(<<"s">>), <<"a">>, FALSE),
                 MkStruct(SName, <<>>, <<>>, <<>>)>>, <<FALSE, FALSE, FALSE>>)}
FailureInputs ==
  {[env |-> FailureEnv(c, us), nodes |-> nodes] :
     c \in {<<>>, <<"a">>}, us \in UnavailableSets, nodes \in FailureAsts}

Inputs == ChainInputs \cup CallInputs \cup CompInputs \cup ListInputs \cup MapInputs
          \cup StructInputs \cup SelectInputs \cup ErrorCallInputs
          \cup FailureInputs \cup RangeInputs \cup RollbackInputs \cup ShadowInputs

\* --------------------------------------------------------------------- Check
NoResult == [kind |-> "none", status |-> "ok", issues |-> <<>>, has_ast |-> FALSE]
\* status_log is not program state: the errors given to status_.Update.
NewRewriter == [status_ |-> "ok", todo |-> <<>>, status_log |-> <<>>]
NoFirst == [nodes |-> <<>>, reference_map |-> <<>>, type_map |-> <<>>]
NoProbe == [pc |-> "none"]

Init ==
  /\ \E inp \in Inputs :
       /\ env = inp.env
       /\ ast = [nodes |-> inp.nodes, root |-> Len(inp.nodes), reference_map |-> <<>>,
                 type_map |-> <<>>, is_checked |-> FALSE]
       /\ work = Visit(Len(inp.nodes))
  /\ vis = NewResolveVisitor
  /\ rw = NewRewriter
  /\ pc = "traverse"
  /\ out = NoResult
  /\ run = 1
  /\ first = NoFirst
  /\ probe = NoProbe

Traversing(ev) == pc = "traverse" /\ work # <<>> /\ Top.ev = ev
Handler == [vis EXCEPT !.gen_log = <<>>,
                       !.visit_log = IF Top.ev = "post" THEN Append(@, Top.id) ELSE @]
PreVisitExpr(v, id) == [v EXCEPT !.expr_stack_ = Append(@, id)]
PostVisitExpr(v, id) ==
  IF v.expr_stack_ = <<>> THEN v
  ELSE [v EXCEPT !.expr_stack_ = SubSeq(@, 1, Len(@) - 1)]

\* AstTraverse enters an expression that is no comprehension.
PreVisitExprStep ==
  /\ Traversing("pre") /\ Node(Top.id).kind # "comprehension"
  /\ vis' = PreVisitExpr(Handler, Top.id)
  /\ work' = Pop \o Reverse(Pending(Top.id))
  /\ UNCHANGED <<probe, env, ast, rw, pc, out, run, first>>

PreVisitComprehensionStep ==
  /\ Traversing("pre") /\ Node(Top.id).kind = "comprehension"
  /\ vis' = PreVisitComprehension(PreVisitExpr(Handler, Top.id), Top.id)
  /\ work' = Pop \o Reverse(Pending(Top.id))
  /\ UNCHANGED <<probe, env, ast, rw, pc, out, run, first>>

PostVisitConstStep ==
  /\ Traversing("post") /\ Node(Top.id).kind = "const"
  /\ vis' = PostVisitExpr(PostVisitConst(Handler, Top.id), Top.id)
  /\ work' = Pop
  /\ UNCHANGED <<probe, env, ast, rw, pc, out, run, first>>

PostVisitIdentStep ==
  /\ Traversing("post") /\ Node(Top.id).kind = "ident"
  /\ vis' = PostVisitExpr(PostVisitIdent(Handler, Top.id), Top.id)
  /\ work' = Pop
  /\ UNCHANGED <<probe, env, ast, rw, pc, out, run, first>>

PostVisitSelectStep ==
  /\ Traversing("post") /\ Node(Top.id).kind = "select"
  /\ vis' = PostVisitExpr(PostVisitSelect(Handler, Top.id), Top.id)
  /\ work' = Pop
  /\ UNCHANGED <<probe, env, ast, rw, pc, out, run, first>>

PostVisitCallStep ==
  /\ Traversing("post") /\ Node(Top.id).kind = "call"
  /\ vis' = PostVisitExpr(PostVisitCall(Handler, Top.id), Top.id)
  /\ work' = Pop
  /\ UNCHANGED <<probe, env, ast, rw, pc, out, run, first>>

PostVisitListStep ==
  /\ Traversing("post") /\ Node(Top.id).kind = "list"
  /\ vis' = PostVisitExpr(PostVisitList(Handler, Top.id), Top.id)
  /\ work' = Pop
  /\ UNCHANGED <<probe, env, ast, rw, pc, out, run, first>>

PostVisitMapStep ==
  /\ Traversing("post") /\ Node(Top.id).kind = "map"
  /\ vis' = PostVisitExpr(PostVisitMap(Handler, Top.id), Top.id)
  /\ work' = Pop
  /\ UNCHANGED <<probe, env, ast, rw, pc, out, run, first>>

PostVisitStructStep ==
  /\ Traversing("post") /\ Node(Top.id).kind = "struct"
  /\ vis' = PostVisitExpr(PostVisitStruct(Handler, Top.id), Top.id)
  /\ work' = Pop
  /\ UNCHANGED <<probe, env, ast, rw, pc, out, run, first>>

PostVisitComprehensionStep ==
  /\ Traversing("post") /\ Node(Top.id).kind = "comprehension"
  /\ vis' = PostVisitExpr(PostVisitComprehension(Handler, Top.id), Top.id)
  /\ work' = Pop
  /\ UNCHANGED <<probe, env, ast, rw, pc, out, run, first>>

PreVisitComprehensionSubexpressionStep ==
  /\ Traversing("pre_sub")
  /\ vis' = PreVisitComprehensionSubexpression(Handler, Top.id, Top.arg)
  /\ work' = Pop
  /\ UNCHANGED <<probe, env, ast, rw, pc, out, run, first>>

PostVisitComprehensionSubexpressionStep ==
  /\ Traversing("post_sub")
  /\ vis' = PostVisitComprehensionSubexpression(Handler, Top.id, Top.arg)
  /\ work' = Pop
  /\ UNCHANGED <<probe, env, ast, rw, pc, out, run, first>>

\* The scan of the issues, were it to find no error ever.
HasErrorIgnored(issues) == FALSE

HasError(issues) == \E i \in 1..Len(issues) : issues[i].severity = "error"

\* Check after AstTraverse: CEL_RETURN_IF_ERROR(visitor.status()), then the
\* scan of the issues for an error, else on to the rewriter.
CheckLatch ==
  /\ pc = "traverse" /\ work = <<>>
  /\ IF vis.status_ # "ok"
     THEN /\ out' = [kind |-> "status", status |-> vis.status_, issues |-> <<>>,
                     has_ast |-> FALSE]
          /\ pc' = "done" /\ rw' = rw
     ELSE IF HasError(vis.issues)
     THEN /\ out' = [kind |-> "result", status |-> "ok", issues |-> vis.issues,
                     has_ast |-> FALSE]
          /\ pc' = "done" /\ rw' = rw
     ELSE /\ out' = out /\ pc' = "rewrite"
          /\ rw' = [NewRewriter EXCEPT !.todo = PostOrder(ast.nodes, ast.root)]
  /\ UNCHANGED <<probe, env, ast, vis, work, run, first>>

\* AstRewrite post-visits the next expression.
PostVisitRewriteStep ==
  /\ pc = "rewrite" /\ rw.todo # <<>>
  /\ LET r == PostVisitRewrite(ast, rw, Head(rw.todo))
     IN /\ ast' = r.ast
        /\ rw' = [r.rw EXCEPT !.todo = Tail(@)]
  /\ UNCHANGED <<probe, env, vis, work, pc, out, run, first>>

\* Check after AstRewrite: CEL_RETURN_IF_ERROR(rewriter.status()), else the
\* checked AST with the issues.
CheckReturn ==
  /\ pc = "rewrite" /\ rw.todo = <<>>
  /\ IF rw.status_ # "ok"
     THEN /\ out' = [kind |-> "status", status |-> rw.status_, issues |-> <<>>,
                     has_ast |-> FALSE]
          /\ ast' = ast
     ELSE /\ out' = [kind |-> "result", status |-> "ok", issues |-> vis.issues,
                     has_ast |-> TRUE]
          /\ ast' = [ast EXCEPT !.is_checked = TRUE]
  /\ pc' = "done"
  /\ UNCHANGED <<probe, env, vis, work, rw, run, first>>

\* The caller strips the checked AST of its maps and checks it again with
\* the same checker.
Recheck ==
  /\ pc = "done" /\ run = 1 /\ out.has_ast
  /\ first' = [nodes |-> ast.nodes, reference_map |-> ast.reference_map,
               type_map |-> ast.type_map]
  /\ ast' = [ast EXCEPT !.reference_map = <<>>, !.type_map = <<>>, !.is_checked = FALSE]
  /\ vis' = NewResolveVisitor
  /\ work' = Visit(ast.root)
  /\ rw' = NewRewriter
  /\ pc' = "traverse"
  /\ out' = NoResult
  /\ run' = 2
  /\ UNCHANGED <<probe, env>>

Next ==
  \/ PreVisitExprStep
  \/ PreVisitComprehensionStep
  \/ PostVisitConstStep
  \/ PostVisitIdentStep
  \/ PostVisitSelectStep
  \/ PostVisitCallStep
  \/ PostVisitListStep
  \/ PostVisitMapStep
  \/ PostVisitStructStep
  \/ PostVisitComprehensionStep
  \/ PreVisitComprehensionSubexpressionStep
  \/ PostVisitComprehensionSubexpressionStep
  \/ CheckLatch
  \/ PostVisitRewriteStep
  \/ CheckReturn
  \/ Recheck

Spec == Init /\ [][Next]_vars

\* -------------------------------------------------- IsAssignable on its own
\* The types IsAssignable is tried on: the types without parameters, and
\* list and optional built over them MaxDepth deep, and some maps, types
\* of types and a two-parameter opaque type.
MaxDepth == 1
TypeParamT == TypeParamType(<<"T">>)
BaseTypes == {DynType, NullType, AnyType, IntType, StringType, IntWrapperType,
              StructType(SName), TypeParamT}
RECURSIVE TypesUpTo(_)
TypesUpTo(depth) ==
  IF depth = 0 THEN BaseTypes
  ELSE LET s == TypesUpTo(depth - 1)
       IN s \cup {ListType(t) : t \in s} \cup {OptionalType(t) : t \in s}
MixedTypes == {MapType(StringType, IntType), MapType(DynType, IntType),
               MapType(StringType, DynType), MapType(TypeParamT, TypeParamT),
               TypeType(<<IntType>>), TypeType(<<DynType>>),
               OpaqueType(<<"O">>, <<IntType, StringType>>)}
Types == TypesUpTo(MaxDepth) \cup MixedTypes

AssignInit ==
  /\ \E a \in Types, b \in Types, c \in Types :
       probe = [pc |-> "self", a |-> a, b |-> b, c |-> c,
                aa |-> FALSE, ab |-> FALSE, bc |-> FALSE, ac |-> FALSE]
  /\ env = MakeEnv(<<>>, {}, {})
  /\ ast = [nodes |-> <<>>, root |-> 0, reference_map |-> <<>>,
            type_map |-> <<>>, is_checked |-> FALSE]
  /\ work = <<>>
  /\ vis = NewResolveVisitor
  /\ rw = NewRewriter
  /\ pc = "done"
  /\ out = NoResult
  /\ run = 1
  /\ first = NoFirst

\* IsAssignable(a, a) in a new context.
IsAssignableSelf ==
  /\ probe.pc = "self"
  /\ probe' = [probe EXCEPT
       !.pc = "chain",
       !.aa = IsAssignable(NewTypeInferenceContext, probe.a, probe.a).ok]
  /\ UNCHANGED <<env, ast, vis, work, rw, pc, out, run, first>>

\* IsAssignable(a, b), IsAssignable(b, c) and IsAssignable(a, c), each in a
\* new context.
IsAssignableChain ==
  /\ probe.pc = "chain"
  /\ probe' = [probe EXCEPT
       !.pc = "asked",
       !.ab = IsAssignable(NewTypeInferenceContext, probe.a, probe.b).ok,
       !.bc = IsAssignable(NewTypeInferenceContext, probe.b, probe.c).ok,
       !.ac = IsAssignable(NewTypeInferenceContext, probe.a, probe.c).ok]
  /\ UNCHANGED <<env, ast, vis, work, rw, pc, out, run, first>>

AssignNext == IsAssignableSelf \/ IsAssignableChain
AssignSpec == AssignInit /\ [][AssignNext]_vars

\* ------------------------------------------- ComputeSourceLocation on its own
MaxPosition == 6
MaxLines == 3
MaxId == 2

SourceLocation(line, column) == [line |-> line, column |-> column]
\* SourceLocation{}: no line and no column.
NoSourceLocation == SourceLocation(-1, -1)

\* The loop over line_offsets from the i-th offset: it leaves at the first
\* offset that absolute_position has reached and counts the others.
RECURSIVE LineIdx(_, _, _, _)
LineIdx(line_offsets, i, absolute_position, line_idx) ==
  IF i > Len(line_offsets) THEN line_idx
  ELSE IF absolute_position >= line_offsets[i] THEN line_idx
  ELSE LineIdx(line_offsets, i + 1, absolute_position, line_idx + 1)

\* line_offsets()[line_idx] is line_offsets[line_idx + 1] here.
ComputeSourceLocation(source_info, expr_id) ==
  IF expr_id \notin DOMAIN source_info.positions THEN NoSourceLocation
  ELSE LET absolute_position == source_info.positions[expr_id]
           line_idx == LineIdx(source_info.line_offsets, 1, absolute_position, -1)
       IN IF line_idx < 0 \/ line_idx >= Len(source_info.line_offsets)
          THEN SourceLocation(1, absolute_position)
          ELSE SourceLocation(line_idx + 1,
                 absolute_position - source_info.line_offsets[line_idx + 1] + 1)

\* The lists of line offsets: increasing positions.
LineOffsets ==
  {s \in SeqsUpTo(0..MaxPosition, MaxLines) :
     \A i \in 1..(Len(s) - 1) : s[i] < s[i + 1]}
\* The position maps: some of the ids have a position.
Positions == UNION {[S -> 0..MaxPosition] : S \in SUBSET (1..MaxId)}

LocationInit ==
  /\ \E lo \in LineOffsets, ps \in Positions :
       probe = [pc |-> "source",
                source_info |-> [line_offsets |-> lo, positions |-> ps],
                expr_id |-> 0, location |-> NoSourceLocation]
  /\ env = MakeEnv(<<>>, {}, {})
  /\ ast = [nodes |-> <<>>, root |-> 0, reference_map |-> <<>>,
            type_map |-> <<>>, is_checked |-> FALSE]
  /\ work = <<>>
  /\ vis = NewResolveVisitor
  /\ rw = NewRewriter
  /\ pc = "done"
  /\ out = NoResult
  /\ run = 1
  /\ first = NoFirst

\* ComputeSourceLocation(ast, expr_id) for the id of an issue.
ComputeSourceLocationStep ==
  /\ probe.pc = "source"
  /\ \E expr_id \in 1..MaxId :
       probe' = [probe EXCEPT
         !.pc = "located",
         !.expr_id = expr_id,
         !.location = ComputeSourceLocation(probe.source_info, expr_id)]
  /\ UNCHANGED <<env, ast, vis, work, rw, pc, out, run, first>>

LocationNext == ComputeSourceLocationStep
LocationSpec == LocationInit /\ [][LocationNext]_vars

\* -------------------------------------------------------------- properties
Root == Len(ast.nodes)
\* Check has returned a ValidationResult.
Returned == pc = "done" /\ out.kind = "result"
\* AstTraverse is through, and the visitor holds what it resolved.
Resolved == pc # "traverse" \/ work = <<>>
ErrorIssues(issues) == {i \in 1..Len(issues) : issues[i].severity = "error"}
\* The nodes of the subexpression under id.
Under(id) == SeqToSet(PostOrder(ast.nodes, id))

\* C1: a ValidationResult with an error-severity issue carries no AST (the
\* rewriter never ran on it, and it is not marked checked), only the issues
\* the visitor collected; a result with an AST holds no error-severity issue.
C1_ErrorLatch ==
  Returned =>
    /\ out.issues = vis.issues
    /\ ErrorIssues(out.issues) # {} =>
         ~out.has_ast /\ ~ast.is_checked /\ ast.reference_map = <<>> /\ ast.type_map = <<>>
    /\ out.has_ast => ErrorIssues(out.issues) = {} /\ ast.is_checked

\* A result that holds an error and no AST, although the visitor had
\* resolved and typed some expression.
C1_Witness ==
  /\ Returned /\ ErrorIssues(out.issues) # {} /\ ~out.has_ast
  /\ DOMAIN vis.types_ # {} /\ DOMAIN vis.attributes_ # {}

\* A type_param nowhere in the ast_internal::Type t.
RECURSIVE Ground(_)
Ground(t) == t.k # "type_param" /\ \A i \in 1..Len(t.p) : Ground(t.p[i])

\* flat has dyn wherever the finalized type t has a free type variable.
RECURSIVE DynWhereFree(_, _)
DynWhereFree(t, flat) ==
  IF t.k = "type_param" THEN flat = AstDynamicType
  ELSE \A i \in 1..Len(t.p) : Len(flat.p) >= i /\ DynWhereFree(t.p[i], flat.p[i])

\* C2: every type of the type map is ground at every depth, and is dyn
\* wherever the visitor's type, finalized, still has a free type variable.
C2_GroundTypeMap ==
  \A id \in DOMAIN ast.type_map :
     /\ Ground(ast.type_map[id])
     /\ id \in DOMAIN vis.types_
     /\ DynWhereFree(FinalizeType(vis.ic, vis.types_[id]), ast.type_map[id])

\* A checked AST with a call whose finalized type is a free variable and an
\* argument whose finalized type is a list of a free variable.
C2_Witness ==
  /\ Returned /\ out.has_ast
  /\ \E id \in DOMAIN ast.type_map, arg \in DOMAIN ast.type_map :
        /\ FinalizeType(vis.ic, vis.types_[id]).k = "type_param"
        /\ ast.type_map[id] = AstDynamicType
        /\ FinalizeType(vis.ic, vis.types_[arg]).k = "list"
        /\ FinalizeType(vis.ic, vis.types_[arg]).p[1].k = "type_param"
        /\ ast.type_map[arg] = AstType("list", <<>>, <<AstDynamicType>>)

\* The identifiers under part i of comprehension c that resolved to a
\* variable of the scope s.
ResolvedInto(c, i, s) ==
  {id \in Under(Node(c).args[i]) \cap DOMAIN vis.attributes_ :
     vis.attributes_[id].scope = s}

\* C3: for every comprehension under visit (the nested ones too), no
\* identifier of its iter_range or accu_init has resolved to its own
\* iter_var or accu_var, and none of its loop_condition or result to its
\* own iter_var.
C3_ScopeHygiene ==
  \A k \in 1..Len(vis.comprehension_scopes_) :
     LET sc == vis.comprehension_scopes_[k]
         c == sc.comprehension_expr
     IN /\ \A i \in {1, 2} : ResolvedInto(c, i, sc.accu_scope) = {}
                            /\ ResolvedInto(c, i, sc.iter_scope) = {}
        /\ \A i \in {3, 5} : ResolvedInto(c, i, sc.iter_scope) = {}

\* A comprehension nested in the loop_step of another one with the same
\* variables: its iter_range reads the outer iter_var, its loop_condition
\* its own accu_var, and its loop_step its own iter_var and accu_var.
C3_Witness ==
  /\ Len(vis.comprehension_scopes_) = 2
  /\ LET outer == vis.comprehension_scopes_[1]
         inner == vis.comprehension_scopes_[2]
         c == inner.comprehension_expr
     IN /\ c = loop_step(Node(outer.comprehension_expr))
        /\ Node(c).iter_var = Node(outer.comprehension_expr).iter_var
        /\ ResolvedInto(c, 1, outer.iter_scope) # {}
        /\ ResolvedInto(c, 3, inner.accu_scope) # {}
        /\ ResolvedInto(c, 4, inner.iter_scope) # {}
        /\ ResolvedInto(c, 4, inner.accu_scope) # {}

\* The visitor has just handled the last event of the traversal.
Traversed == pc = "traverse" /\ work = <<>>
VarDeclared(name) == \E d \in env.variables : d.name = name
\* name under the container prefixes, the longest prefix first.
ContainerOrder(name) ==
  [i \in 1..(Len(env.container) + 1) |->
     SubSeq(env.container, 1, Len(env.container) + 1 - i) \o name]
Least(S) == CHOOSE i \in S : \A j \in S : i <= j
Greatest(S) == CHOOSE i \in S : \A j \in S : i >= j
IssuesAt(id) == SelectSeq(vis.issues, LAMBDA x : x.id = id)
LoneIdent == Len(ast.nodes) = 1 /\ Node(1).kind = "ident"

\* C4: for an identifier N that is the whole expression, the candidates
\* offered are c1...cn.N, c1...cn-1.N, ..., N in this order up to and
\* including the first one that names a declared variable, and none after
\* it; N resolves to that variable, and the reference recorded for it is
\* the variable's full name.  With no candidate declared, all are offered
\* and N is an undeclared reference.
C4_CandidateOrder ==
  /\ Traversed /\ LoneIdent =>
       LET order == ContainerOrder(Node(1).name)
           hits == {i \in 1..Len(order) : VarDeclared(order[i])}
       IN /\ Len(vis.gen_log) = 1
          /\ vis.gen_log[1] = SubSeq(order, 1, Len(vis.gen_log[1]))
          /\ IF hits = {}
             THEN /\ Len(vis.gen_log[1]) = Len(order)
                  /\ vis.attributes_ = <<>>
                  /\ vis.issues = <<Issue("error", 1, "undeclared reference",
                                          Node(1).name, <<>>)>>
             ELSE /\ Len(vis.gen_log[1]) = Least(hits)
                  /\ DOMAIN vis.attributes_ = {1}
                  /\ vis.attributes_[1].name = order[Least(hits)]
                  /\ vis.issues = <<>>
  /\ Resolved /\ LoneIdent /\ 1 \in DOMAIN ast.reference_map =>
       /\ ast.reference_map[1] = [name |-> vis.attributes_[1].name, overload_id |-> <<>>]
       /\ Node(1).name = vis.attributes_[1].name

\* A checked identifier in a container of two segments, declared under the
\* first segment and at the top: two candidates were offered, and the
\* reference is the name under the first segment.
C4_Witness ==
  /\ Returned /\ out.has_ast /\ run = 1 /\ LoneIdent /\ Len(env.container) = 2
  /\ Len(vis.gen_log[1]) = 2
  /\ LET N == SubSeq(vis.gen_log[1][1], 3, 3)
     IN /\ ast.reference_map[1].name = SubSeq(env.container, 1, 1) \o N
        /\ VarDeclared(N)

\* The expression is a chain q1.q2...qk, k > 1: node i spans q1...qi.
\* The expression is a dotted chain: an identifier under selects, none of
\* them below the outermost a test_only select (a has() inside the chain
\* ends the dotted name).
ChainAst ==
  /\ Len(ast.nodes) > 1
  /\ \A i \in 1..Len(ast.nodes) : Node(i).kind \in {"ident", "select"}
  /\ \A i \in 1..(Len(ast.nodes) - 1) : ~Node(i).test_only
\* q1.q2...qj
ChainName(j) == FormatCandidate([i \in 1..j |-> Node(i).name])
PrefixDeclared(j) == \E i \in 1..(Len(env.container) + 1) :
                        VarDeclared(ContainerOrder(ChainName(j))[i])
\* What the selection of field on an operand of type ot is to give: a type,
\* or the error msg.
SelectOutcome(ot, field) ==
  LET held == IF IsOptional(ot) THEN ot.p[1] ELSE ot
      fields == LookupStructField(env, held.n, field)
  IN IF held.k \in {"dyn", "any"} THEN [has |-> TRUE, type |-> DynType, msg |-> ""]
     ELSE IF held.k = "struct"
     THEN (IF fields # {}
           THEN [has |-> TRUE, type |-> (CHOOSE f \in fields : TRUE).type, msg |-> ""]
           ELSE [has |-> FALSE, type |-> DynType, msg |-> "undefined field"])
     ELSE IF held.k = "map"
             /\ Deref(vis.ic, held.p[1]).k \in {"string", "string_wrapper", "dyn"}
     THEN [has |-> TRUE, type |-> held.p[2], msg |-> ""]
     ELSE [has |-> FALSE, type |-> DynType,
           msg |-> "cannot be the operand of a select operation"]
\* Select node i is typed as a field selection over its operand.
TypedAsSelect(i) ==
  LET o == SelectOutcome(GetTypeOrDyn(vis, operand(Node(i))), Node(i).name)
  IN IF o.has
     THEN /\ i \in DOMAIN vis.types_
          /\ vis.types_[i] = IF Node(i).test_only THEN BoolType ELSE o.type
     ELSE /\ i \notin DOMAIN vis.types_
          /\ Len(IssuesAt(i)) = 1
          /\ IssuesAt(i)[1].msg = o.msg

\* C5: of a chain q1...qk the longest prefix q1...qj that names a declared
\* variable (under some container prefix, the longest such preferred) is
\* resolved as that variable and recorded on node j alone; the segments
\* after j are typed as field selections, the nodes before j get no type;
\* with no prefix declared the chain is an undeclared reference.  When the
\* whole chain names a variable, the reference of the outermost select is
\* the variable's full name.  (In environments whose lookups do not fail.)
C5_LongestPrefix ==
  /\ Traversed /\ run = 1 /\ ChainAst /\ env.unavailable = {} =>
       LET k == Len(ast.nodes)
           declared == {j \in 1..k : PrefixDeclared(j)}
       IN IF declared = {}
          THEN /\ vis.attributes_ = <<>> /\ vis.types_ = <<>>
               /\ vis.issues = <<Issue("error", k, "undeclared reference",
                                       ChainName(k), <<>>)>>
          ELSE LET j == Greatest(declared)
                   order == ContainerOrder(ChainName(j))
               IN /\ DOMAIN vis.attributes_ = {j}
                  /\ vis.attributes_[j].name =
                       order[Least({i \in 1..Len(order) : VarDeclared(order[i])})]
                  /\ vis.types_[j] = vis.attributes_[j].type
                  /\ \A i \in 1..(j - 1) : i \notin DOMAIN vis.types_
                  /\ \A i \in (j + 1)..k : TypedAsSelect(i)
  /\ Resolved /\ ChainAst /\ Root \in DOMAIN vis.attributes_
     /\ Root \in DOMAIN ast.reference_map =>
       /\ ast.reference_map[Root] = [name |-> vis.attributes_[Root].name,
                                     overload_id |-> <<>>]
       /\ Node(Root).kind = "ident" /\ Node(Root).name = vis.attributes_[Root].name

\* A chain of three segments whose first segment and first two segments
\* both name variables: the two-segment variable is taken, and the third
\* segment is typed as its int field.
C5_Witness ==
  /\ Traversed /\ run = 1 /\ ChainAst /\ Len(ast.nodes) = 3
  /\ PrefixDeclared(1) /\ PrefixDeclared(2) /\ ~PrefixDeclared(3)
  /\ DOMAIN vis.attributes_ = {2}
  /\ 3 \in DOMAIN vis.types_ /\ vis.types_[3] = IntType

CallAst == Node(Root).kind = "call"
\* The call is written target.fn(args) with an identifier or a chain of
\* selects as target (nodes 1..target).
TargetChain ==
  /\ Node(Root).target # 0
  /\ \A i \in 1..Node(Root).target : Node(i).kind \in {"ident", "select"}
FunctionNamed(name) == {d \in env.functions : d.name = name}
HasShape(d, member, arity) ==
  \E i \in 1..Len(d.overloads) :
     d.overloads[i].member = member /\ Len(d.overloads[i].parameters) = arity
\* The candidates of name that declare a function of the shape.
ShapedAt(name, member, arity) ==
  {i \in 1..(Len(env.container) + 1) :
     \E d \in FunctionNamed(ContainerOrder(name)[i]) : HasShape(d, member, arity)}
\* The candidates of q.fn that declare a function called as fn(args).
NamespacedAt ==
  ShapedAt(ChainName(Node(Root).target) \o Node(Root).name, FALSE, Len(Node(Root).args))

\* C6: for a call target.fn(args) over a chain q, when some candidate of
\* q.fn declares a function with a non-member overload of len(args)
\* parameters, the call is taken as a call of the first such candidate's
\* function with the arguments alone and q is never read as a variable; in
\* the checked AST the call's reference name and function name are that
\* function's name and the call has no target.
C6_NamespacedCall ==
  /\ Traversed /\ run = 1 /\ CallAst /\ TargetChain /\ NamespacedAt # {} =>
       LET name == ContainerOrder(ChainName(Node(Root).target) \o Node(Root).name)
                     [Least(NamespacedAt)]
       IN /\ vis.attributes_ = <<>>
          /\ \A i \in 1..Node(Root).target : i \notin DOMAIN vis.types_
          /\ IF Root \in DOMAIN vis.functions_
             THEN /\ vis.functions_[Root].namespace_rewrite
                  /\ vis.functions_[Root].decl.name = name
                  /\ vis.issues = <<>>
             ELSE vis.issues = <<Issue("error", Root, "found no matching overload", name,
                                       [i \in 1..Len(Node(Root).args) |->
                                          GetTypeOrDyn(vis, Node(Root).args[i])])>>
  /\ Returned /\ out.has_ast /\ CallAst /\ vis.functions_[Root].namespace_rewrite =>
       /\ ast.reference_map[Root].name = vis.functions_[Root].decl.name
       /\ Node(Root).name = vis.functions_[Root].decl.name
       /\ Node(Root).target = 0

\* A checked call a.f() where a is a declared variable of a struct type on
\* which the member function f is declared, and a.f is a declared function
\* without parameters: the reference is a.f and the target is gone.
C6_Witness ==
  /\ Returned /\ out.has_ast /\ run = 1 /\ CallAst
  /\ vis.functions_[Root].namespace_rewrite
  /\ Node(Root).args = <<>> /\ Node(Root).target = 0
  /\ ast.reference_map[Root].name = <<"a", "f">>
  /\ VarDeclared(<<"a">>)
  /\ \E d \in FunctionNamed(<<"f">>) : d.overloads = MemberOverloads

\* The call style and the argument types (receiver first) as resolved.
CallStyle(id) == has_target(Node(id)) /\ ~vis.functions_[id].namespace_rewrite
CallArgTypes(id) == ArgTypes(vis, id, CallStyle(id))
DeclOf(id) == CHOOSE d \in env.functions : d.name = vis.functions_[id].decl.name
\* The overload is of the call's style and arity, and its parameters, freshly
\* instantiated, pairwise accept the argument types.
Accepts(id, ovl) ==
  /\ ovl.member = CallStyle(id)
  /\ Len(ovl.parameters) = Len(CallArgTypes(id))
  /\ TryOverload(vis.ic, ovl, CallArgTypes(id)).ok
Survivors(id) == SelectSeq(DeclOf(id).overloads, LAMBDA ovl : Accepts(id, ovl))
\* The result type of the overload instantiated for the call, as it reaches
\* the type map.
Outcome(id, ovl) ==
  FlattenType(FinalizeType(TryOverload(vis.ic, ovl, CallArgTypes(id)).ic,
                           TryOverload(vis.ic, ovl, CallArgTypes(id)).result))

\* C7: for every resolved call, the overloads kept are exactly the
\* overloads of the declaration that have the call's style and arity and
\* accept the argument types, in declaration order; with one survivor the
\* call's type is its instantiated result type, with several (of ground
\* result types) the common result type when they agree and dyn otherwise;
\* the reference of the call lists the ids of the survivors and no other.
C7_Survivors ==
  Resolved =>
    \A id \in DOMAIN vis.functions_ :
       LET kept == vis.functions_[id].decl.overloads
           results == {kept[i].result : i \in 1..Len(kept)}
       IN /\ kept = Survivors(id) /\ kept # <<>>
          /\ Len(kept) = 1 =>
               FlattenType(FinalizeType(vis.ic, vis.types_[id])) = Outcome(id, kept[1])
          /\ Len(kept) > 1 /\ (\A r \in results : TypeParamsOf(r) = <<>>) =>
               vis.types_[id] = IF Cardinality(results) = 1 THEN kept[1].result
                                ELSE DynType
          /\ id \in DOMAIN ast.reference_map =>
               ast.reference_map[id] =
                 [name |-> DeclOf(id).name,
                  overload_id |-> [i \in 1..Len(Survivors(id)) |-> Survivors(id)[i].id]]

\* A checked call of a function of four overloads, two of which survive
\* with different result types: the call's type is dyn and its reference
\* lists the two.
C7_Witness ==
  /\ Returned /\ out.has_ast /\ CallAst
  /\ Len(DeclOf(Root).overloads) = 4
  /\ Len(ast.reference_map[Root].overload_id) = 2
  /\ vis.types_[Root] = DynType /\ ast.type_map[Root] = AstDynamicType

\* The call is resolved by its own name: it is not a call of a namespaced
\* function.
PlainCall ==
  /\ CallAst
  /\ Root \in DOMAIN vis.maybe_namespaced_functions_ => NamespacedAt = {}
\* The candidates of the call's name that declare a function at all.
NamedAt == {i \in 1..(Len(env.container) + 1) :
              FunctionNamed(ContainerOrder(Node(Root).name)[i]) # {}}
CallShapedAt ==
  ShapedAt(Node(Root).name, has_target(Node(Root)), ArgCount(Node(Root)))
UndeclaredCall == Issue("error", Root, "undeclared reference", Node(Root).name, <<>>)

\* C8 as stated: with no function of the call's name at any candidate the
\* call is an undeclared reference; with one, and no overload resolved, the
\* call's error is 'found no matching overload' with the argument types.
C8_ByName ==
  Traversed /\ PlainCall =>
    /\ NamedAt = {} => IssuesAt(Root) = <<UndeclaredCall>>
    /\ NamedAt # {} /\ Root \notin DOMAIN vis.functions_ =>
         /\ Len(IssuesAt(Root)) = 1
         /\ IssuesAt(Root)[1].msg = "found no matching overload"
         /\ IssuesAt(Root)[1].types = ArgTypes(vis, Root, has_target(Node(Root)))

\* C8 amended: with no candidate of the call's name declaring a function
\* that has an overload of the call's style and arity, the call is an
\* undeclared reference to its name (also when functions of that name are
\* declared); with one, and no overload of the first such function
\* accepting the argument types, the call's one error is 'found no matching
\* overload' for that function with the argument types; a resolved call has
\* no error.
C8_ByShape ==
  Traversed /\ PlainCall =>
    IF CallShapedAt = {} THEN IssuesAt(Root) = <<UndeclaredCall>>
    ELSE IF Root \notin DOMAIN vis.functions_
    THEN IssuesAt(Root) =
           <<Issue("error", Root, "found no matching overload",
                   ContainerOrder(Node(Root).name)[Least(CallShapedAt)],
                   ArgTypes(vis, Root, has_target(Node(Root))))>>
    ELSE IssuesAt(Root) = <<>>

\* A call f(1) where f is declared with member overloads only: an
\* undeclared reference.
C8_Witness ==
  /\ Traversed /\ PlainCall /\ ~has_target(Node(Root)) /\ Len(Node(Root).args) = 1
  /\ NamedAt # {} /\ CallShapedAt = {}
  /\ vis.issues = <<UndeclaredCall>>

\* C10 as stated: the check of a checked AST, stripped of its maps, returns
\* no error and the reference map and type map of the first check.
C10_RecheckReproduces ==
  pc = "done" /\ run = 2 =>
    /\ out.kind = "result" /\ out.has_ast /\ ErrorIssues(out.issues) = {}
    /\ ast.reference_map = first.reference_map
    /\ ast.type_map = first.type_map

\* ---- aggregates
NodesOfKind(kind) == {id \in 1..Len(ast.nodes) : Node(id).kind = kind}
\* The type element i of the list (value i of the map's entries) contributes.
Contributed(id, e, i) ==
  LET t == GetTypeOrDyn(vis, e)
  IN IF Node(id).opt[i] /\ IsOptional(t) THEN t.p[1] ELSE t
ElementTypes(id) ==
  {Contributed(id, Node(id).args[i], i) : i \in 1..Len(Node(id).args)}
FreeVariable(t) == t.k = "type_param" /\ t.n \notin {<<"element_type">>, <<"key_type">>,
                                                      <<"value_type">>}
\* The type variables in the types of the nodes visited before id.
VariablesBefore(id) ==
  UNION {SeqToSet(TypeParamsOf(vis.types_[n])) : n \in DOMAIN vis.types_ \cap 1..(id - 1)}

\* C13: a list literal has type list(T) when every element contributes the
\* same type T, list(dyn) when two elements contribute different types, and
\* list of a type variable found in the type of no node visited before it
\* when it has no element; an optional element contributes the parameter of its optional
\* type; the list raises no issue.
C13_ListType ==
  Traversed /\ run = 1 =>
    \A id \in NodesOfKind("list") :
      /\ IssuesAt(id) = <<>>
      /\ id \in DOMAIN vis.types_
      /\ LET t == vis.types_[id]
             elems == ElementTypes(id)
         IN /\ t.k = "list"
            /\ IF elems = {}
               THEN FreeVariable(t.p[1]) /\ t.p[1].n \notin VariablesBefore(id)
               ELSE IF Cardinality(elems) = 1 THEN elems = {t.p[1]}
               ELSE t.p[1] = DynType

\* [1, ?o, 'x', ...] with o an optional(int): list(dyn) without an issue,
\* the first two elements contributing int.
C13_Witness ==
  /\ Traversed /\ run = 1 /\ Node(Root).kind = "list" /\ Len(Node(Root).args) = 3
  /\ Node(Root).opt = <<FALSE, TRUE, FALSE>>
  /\ Contributed(Root, Node(Root).args[1], 1) = IntType
  /\ GetTypeOrDyn(vis, Node(Root).args[2]) = OptionalType(IntType)
  /\ Contributed(Root, Node(Root).args[2], 2) = IntType
  /\ Contributed(Root, Node(Root).args[3], 3) = StringType
  /\ vis.types_[Root] = ListType(DynType) /\ vis.issues = <<>>

\* ---- struct creation
\* The issues field i of the resolved struct creation id is to raise.
FieldIssues(id, i) ==
  LET nd == Node(id)
      resolved_name == vis.struct_types_[id]
      field_info == LookupStructField(env, resolved_name, nd.fields[i])
      declared == (CHOOSE f \in field_info : TRUE).type
      field_type == IF nd.opt[i] THEN OptionalType(declared) ELSE declared
      value_type == GetTypeOrDyn(vis, nd.args[i])
  IN IF field_info = {}
     THEN <<Issue("error", field_id(nd, i), "undefined field",
                  resolved_name \o nd.fields[i], <<>>)>>
     ELSE IF ~IsAssignable(NewTypeInferenceContext, value_type, field_type).ok
     THEN <<Issue("error", field_id(nd, i), "expected type of field", nd.fields[i],
                  <<field_type, value_type>>)>>
     ELSE <<>>
Offending(id) == {i \in 1..Len(Node(id).fields) : FieldIssues(id, i) # <<>>}
FieldErrors(id) ==
  SelectSeq(vis.issues, LAMBDA x : \E i \in 1..Len(Node(id).fields) :
                                      x.id = field_id(Node(id), i))

\* C14: in a struct creation whose name resolved, each field raises the one
\* undefined-field error when the struct declares no such field, the one
\* field-type-mismatch error with the field type (in optional() for an
\* optional field) and the value type when the value is not assignable, and
\* nothing otherwise, whatever the other fields do: as many field errors as
\* offending fields.  (In environments whose lookups do not fail.)
C14_FieldErrors ==
  Traversed /\ run = 1 /\ env.unavailable = {} =>
    \A id \in NodesOfKind("struct") \cap DOMAIN vis.struct_types_ :
      /\ \A i \in 1..Len(Node(id).fields) :
           IssuesAt(field_id(Node(id), i)) = FieldIssues(id, i)
      /\ Len(FieldErrors(id)) = Cardinality(Offending(id))

\* S{c: 1, ?b: 1}: an undefined field, then an int given to an
\* optional(int) field; both errors are raised.
C14_Witness ==
  /\ Traversed /\ run = 1 /\ Node(Root).kind = "struct"
  /\ Root \in DOMAIN vis.struct_types_
  /\ Node(Root).fields = <<<<"c">>, <<"b">>>> /\ Node(Root).opt = <<FALSE, TRUE>>
  /\ Len(vis.issues) = 2
  /\ vis.issues[1].msg = "undefined field"
  /\ vis.issues[2] = Issue("error", field_id(Node(Root), 2), "expected type of field",
                           <<"b">>, <<OptionalType(IntType), IntType>>)

\* The candidates of the struct creation's name that name a type.
TypeNamedAt(id) ==
  {i \in 1..(Len(env.container) + 1) :
     LookupTypeName(env, ContainerOrder(Node(id).name)[i]) # {}}
Unresolved(id) ==
  /\ id \notin DOMAIN vis.types_ /\ id \notin DOMAIN vis.struct_types_
  /\ FieldErrors(id) = <<>>

\* C15: the name of a struct creation is tried under the container
\* prefixes, longest first, and the first candidate that names a type is
\* taken.  With none, the creation is an undeclared reference to its name;
\* with a type that is no struct and no well-known message type, it 'does
\* not support message creation'; in both cases it has no type, no
\* reference and no field error.  Otherwise its type is that type and its
\* reference is that candidate, which the checked AST carries as the
\* reference name and as the struct's name.  (In environments whose lookups
\* do not fail.)
C15_StructName ==
  /\ Traversed /\ run = 1 /\ env.unavailable = {} =>
       \A id \in NodesOfKind("struct") :
         IF TypeNamedAt(id) = {}
         THEN /\ IssuesAt(id) = <<Issue("error", id, "undeclared reference",
                                        Node(id).name, <<>>)>>
              /\ Unresolved(id)
         ELSE LET resolved_name == ContainerOrder(Node(id).name)[Least(TypeNamedAt(id))]
                  resolved_type == (CHOOSE d \in env.types : d.name = resolved_name).type
              IN IF resolved_type.k # "struct" /\ resolved_name \notin WellKnownMessageTypes
                 THEN /\ IssuesAt(id) = <<Issue("error", id,
                                        "does not support message creation",
                                        resolved_name, <<>>)>>
                      /\ Unresolved(id)
                 ELSE /\ IssuesAt(id) = <<>>
                      /\ id \in DOMAIN vis.types_ /\ vis.types_[id] = resolved_type
                      /\ id \in DOMAIN vis.struct_types_
                      /\ vis.struct_types_[id] = resolved_name
  /\ Returned /\ run = 1 /\ out.has_ast =>
       \A id \in NodesOfKind("struct") :
         /\ id \in DOMAIN vis.struct_types_ /\ id \in DOMAIN ast.reference_map
         /\ ast.reference_map[id] = [name |-> vis.struct_types_[id], overload_id |-> <<>>]
         /\ Node(id).name = vis.struct_types_[id]

\* S{} in container a, where a.S and S are both types: a.S is taken.
C15_Witness ==
  /\ Traversed /\ run = 1 /\ Node(Root).kind = "struct" /\ Node(Root).name = SName
  /\ env.container = <<"a">> /\ TypeNamedAt(Root) = {1, 2}
  /\ vis.struct_types_[Root] = <<"a", "S">>
  /\ vis.types_[Root] = StructType(<<"a", "S">>)

\* ---- selection
\* The node at the foot of the chain of selects under id: the first that
\* is a test_only select, is no select, or is resolved as a variable.
RECURSIVE ChainFoot(_)
ChainFoot(id) ==
  IF Node(id).kind = "select" /\ ~Node(id).test_only /\ id \notin DOMAIN vis.attributes_
  THEN ChainFoot(operand(Node(id))) ELSE id
\* The select id selects a field of its operand: it is no part of a
\* variable's name, of an undeclared name or of a function's namespace.
SelectOperation(id) ==
  /\ id \notin DOMAIN vis.attributes_
  /\ LET foot == ChainFoot(operand(Node(id)))
     IN foot \in DOMAIN vis.attributes_ \/ Node(foot).kind # "ident"

\* C16: a select of a field on an operand of type T, or of type T under
\* one optional(T), is typed dyn for T dyn or any, with the declared type of
\* the field for a struct T that declares it, with V for T map(K, V) when
\* string is assignable to K (bool in each case if it is test_only); a
\* struct without the field gives the one undefined-field error, any other
\* T and a map whose key takes no string the one 'cannot be the operand of
\* a select operation' error, and on either error the select has no type.
\* (In environments whose lookups do not fail.)
C16_Select ==
  Traversed /\ run = 1 /\ env.unavailable = {} =>
    \A id \in NodesOfKind("select") : SelectOperation(id) => TypedAsSelect(id)

\* om.a with om an optional(map(dyn, string)) is typed string.
C16_Witness ==
  /\ Traversed /\ run = 1 /\ Node(Root).kind = "select" /\ SelectOperation(Root)
  /\ ~Node(Root).test_only
  /\ GetTypeOrDyn(vis, operand(Node(Root))) = OptionalType(MapType(DynType, StringType))
  /\ vis.types_[Root] = StringType /\ vis.issues = <<>>

\* C17 as stated: a test_only select that has a type has the type bool,
\* also when it ends a chain of selects over an identifier and the chain
\* spells a declared variable.
C17_TestOnlyBool ==
  run = 1 /\ pc = "traverse" =>
    \A id \in NodesOfKind("select") :
      Node(id).test_only /\ id \in DOMAIN vis.types_ => vis.types_[id] = BoolType

\* ---- map keys
KeyWarnings(key) ==
  SelectSeq(vis.issues, LAMBDA x : x.id = key /\ x.msg = "unsupported map key type")

\* C18: each entry of a map whose key has a type of a kind other than bool,
\* int, uint, string and dyn adds one warning about the key, and no entry
\* adds an error about its key; a check whose issues are warnings only
\* and which recorded no internal failure returns the AST, checked, with
\* the warnings.
C18_KeyWarnings ==
  /\ Traversed /\ run = 1 =>
       \A id \in NodesOfKind("map") : \A i \in 1..Len(Node(id).opt) :
         LET key == entry_key(Node(id), i)
         IN KeyWarnings(key) =
              IF GetTypeOrDyn(vis, key).k \in {"bool", "int", "uint", "string", "dyn"}
              THEN <<>>
              ELSE <<Issue("warning", key, "unsupported map key type", <<>>,
                           <<GetTypeOrDyn(vis, key)>>)>>
  /\ pc = "done" /\ run = 1 /\ vis.issues # <<>> /\ ErrorIssues(vis.issues) = {}
     /\ vis.status_ = "ok" /\ rw.status_ = "ok" =>
       /\ out.kind = "result" /\ out.has_ast /\ ast.is_checked
       /\ out.issues = vis.issues

\* {1.0: 1, 'x': 1}: one warning, for the first key, and the checked AST.
C18_Witness ==
  /\ pc = "done" /\ run = 1 /\ Node(Root).kind = "map" /\ Len(Node(Root).opt) = 2
  /\ Node(entry_key(Node(Root), 1)).ckind = "double"
  /\ Node(entry_key(Node(Root), 2)).ckind = "string"
  /\ Len(out.issues) = 1 /\ out.issues[1].severity = "warning"
  /\ out.issues[1].id = entry_key(Node(Root), 1)
  /\ out.has_ast /\ ast.is_checked

\* ---- order of the issues
\* The expression an issue is attached to: the expression of that id, and
\* for the id of a struct field the struct creation.
AttachedTo(x) ==
  IF x.id > 0 THEN x.id
  ELSE CHOOSE id \in NodesOfKind("struct") :
         \E i \in 1..Len(Node(id).fields) : field_id(Node(id), i) = x.id

\* C19 as stated: the issues are in the post-order of the expressions they
\* are attached to (the expressions are numbered in post-order, a call's
\* target before its arguments), the issues about a receiver target that
\* was resolved at its call included.
C19_PostOrderIssues ==
  run = 1 /\ pc = "traverse" =>
    \A i \in 1..Len(vis.issues), j \in 1..Len(vis.issues) :
      i < j => AttachedTo(vis.issues[i]) <= AttachedTo(vis.issues[j])

\* ---- errors and the traversal
\* An error is attached to the expression id; the expressions under id.
\* The resolution of id itself failed: an error is attached to it other than
\* the one a comprehension, typed by its result all the same, gets for the
\* type of its range.
Failed(id) ==
  \E i \in ErrorIssues(vis.issues) :
    /\ vis.issues[i].id = id
    /\ vis.issues[i].msg # "cannot be the range of a comprehension"
Children(id) == SeqToSet(Node(id).args) \cup ({Node(id).target} \ {0})
NoIssue(id, msg) == \A i \in 1..Len(vis.issues) :
                       ~(vis.issues[i].id = id /\ vis.issues[i].msg = msg)
\* The parent id of failed children raises nothing that dyn children would
\* not make it raise.
Unharmed(id) ==
  LET nd == Node(id)
  IN CASE nd.kind = "list" -> IssuesAt(id) = <<>> /\ id \in DOMAIN vis.types_
       [] nd.kind = "map" ->
            /\ IssuesAt(id) = <<>> /\ id \in DOMAIN vis.types_
            /\ \A i \in 1..Len(nd.opt) :
                 Failed(entry_key(nd, i)) => KeyWarnings(entry_key(nd, i)) = <<>>
       [] nd.kind = "select" ->
            /\ IssuesAt(id) = <<>> /\ id \in DOMAIN vis.types_
            /\ vis.types_[id] = IF nd.test_only THEN BoolType ELSE DynType
       [] nd.kind = "struct" ->
            \A i \in 1..Len(nd.fields) :
              Failed(nd.args[i]) => NoIssue(field_id(nd, i), "expected type of field")
       [] nd.kind = "call" ->
            (\A c \in Children(id) : GetTypeOrDyn(vis, c) = DynType)
              => NoIssue(id, "found no matching overload")
       [] nd.kind = "comprehension" ->
            Failed(iter_range(nd)) => NoIssue(id, "cannot be the range of a comprehension")
       [] OTHER -> TRUE
\* The identifiers that stand for themselves and name nothing declared.
UndeclaredLeaves ==
  {id \in NodesOfKind("ident") :
     /\ \A p \in 1..Len(ast.nodes) :
          id \in Children(p) => Node(p).kind # "select" /\ Node(p).target # id
     /\ \A i \in 1..(Len(env.container) + 1) :
          ~VarDeclared(ContainerOrder(Node(id).name)[i])}

RECURSIVE HasDyn(_)
HasDyn(t) == t.k = "dyn" \/ \E i \in 1..Len(t.p) : HasDyn(t.p[i])
Asked == probe.pc = "asked"
GroundTriple == Ground(probe.a) /\ Ground(probe.b) /\ Ground(probe.c)

\* C11: IsAssignable(t, t) is true for every type t other than error:
\* primitives, dyn, null, any, wrappers, structs, the compounds, and a free
\* type parameter.
C11_Reflexive ==
  probe.pc \in {"chain", "asked"} /\ probe.a # ErrorType => probe.aa

\* IsAssignable(t, t) asked and true for an optional of a wrapper.
C11_Witness ==
  probe.pc = "chain" /\ probe.aa /\ probe.a = OptionalType(IntWrapperType)

\* C12 as stated: on types free of type variables, IsAssignable(a, b) and
\* IsAssignable(b, c) imply IsAssignable(a, c).
C12_Transitive ==
  Asked /\ GroundTriple /\ probe.ab /\ probe.bc => probe.ac

\* C12: on types free of type variables, IsAssignable(a, b) and
\* IsAssignable(b, c) imply IsAssignable(a, c) when the middle type b has
\* no dyn in it.
C12_TransitiveDynFree ==
  Asked /\ GroundTriple /\ ~HasDyn(probe.b) /\ probe.ab /\ probe.bc => probe.ac

\* list(null) into list(int_wrapper) into list(dyn): a chain of two
\* different rules whose middle type has no dyn.
C12_Witness ==
  /\ Asked /\ probe.ab /\ probe.bc /\ probe.ac
  /\ probe.a = ListType(NullType) /\ probe.b = ListType(IntWrapperType)
  /\ probe.c = ListType(DynType)

\* ---- internal failures
\* The status of the lookup that fails when the struct creation id is
\* visited (the name under the container prefixes, then the fields in
\* order), or ok.
StructFailure(id) ==
  LET order == ContainerOrder(Node(id).name)
      stops == {i \in 1..Len(order) :
                  \/ LookupTypeNameStatus(env, order[i]) # "ok"
                  \/ LookupTypeName(env, order[i]) # {}}
      resolved_name == order[Least(stops)]
      failing == {i \in 1..Len(Node(id).fields) :
                    LookupStructFieldStatus(env, resolved_name, Node(id).fields[i]) # "ok"}
  IN IF stops = {} THEN "ok"
     ELSE IF LookupTypeNameStatus(env, resolved_name) # "ok"
     THEN LookupTypeNameStatus(env, resolved_name)
     ELSE IF id \notin DOMAIN vis.struct_types_ \/ failing = {} THEN "ok"
     ELSE LookupStructFieldStatus(env, resolved_name, Node(id).fields[Least(failing)])
\* The status of the field lookup that fails when the select id is visited.
SelectFailure(id) ==
  LET ot == GetTypeOrDyn(vis, operand(Node(id)))
      held == IF IsOptional(ot) THEN ot.p[1] ELSE ot
  IN IF SelectOperation(id) /\ held.k = "struct"
     THEN LookupStructFieldStatus(env, held.n, Node(id).name)
     ELSE "ok"
LookupFailure(id) ==
  IF Node(id).kind = "struct" THEN StructFailure(id)
  ELSE IF Node(id).kind = "select" THEN SelectFailure(id)
  ELSE "ok"
FailingNodes == {id \in 1..Len(ast.nodes) : LookupFailure(id) # "ok"}
\* The fields of the struct creation id whose lookup fails.
FailingFields(id) ==
  {i \in 1..Len(Node(id).fields) :
     /\ id \in DOMAIN vis.struct_types_
     /\ LookupStructFieldStatus(env, vis.struct_types_[id], Node(id).fields[i]) # "ok"}
\* The expressions whose type FlattenType rejects.
Unflattened ==
  {id \in DOMAIN vis.types_ : ~FlattenType(FinalizeType(vis.ic, vis.types_[id])).ok}
StatusResult(status) ==
  [kind |-> "status", status |-> status, issues |-> <<>>, has_ast |-> FALSE]

\* C22: when a lookup of the environment fails during the traversal, Check
\* returns the status of the first lookup that failed, in the order of the
\* visits, and nothing else, whatever issues there are, and no issue is
\* raised for the expression or field of a failed lookup; when the
\* traversal is clean and a type of some expression cannot be flattened,
\* Check returns the status of the first such expression; otherwise it
\* returns a result with the issues.
C22_FailureStatus ==
  pc = "done" /\ run = 1 =>
    IF FailingNodes # {}
    THEN /\ out = StatusResult(LookupFailure(Least(FailingNodes)))
         /\ \A id \in FailingNodes :
              /\ IssuesAt(id) = <<>>
              /\ \A i \in FailingFields(id) : IssuesAt(field_id(Node(id), i)) = <<>>
    ELSE IF ErrorIssues(vis.issues) = {} /\ Unflattened # {}
    THEN out = StatusResult(
                 FlattenType(FinalizeType(vis.ic, vis.types_[Least(Unflattened)])).status)
    ELSE out.kind = "result" /\ out.issues = vis.issues

\* [u, s.a, S{}] where the lookups of field a of S and of the type S fail
\* with different errors: the error of the field lookup is returned, and
\* the issue about u is not.
C22_Witness ==
  /\ pc = "done" /\ run = 1 /\ Node(Root).kind = "list" /\ Len(Node(Root).args) = 3
  /\ FailingNodes = {3, 4}
  /\ LookupFailure(3) # LookupFailure(4)
  /\ Len(vis.issues) = 1 /\ vis.issues[1].id = 1
  /\ out = StatusResult(LookupFailure(3))

\* ---- receiver-style calls
\* The candidates of fn that declare a member function called on a target
\* with the call's arguments.
ReceiverAt == ShapedAt(Node(Root).name, TRUE, Len(Node(Root).args) + 1)

\* C25: for a call target.fn(args) whose target chain was deferred, when no
\* candidate of q.fn declares a function with a non-member overload of
\* len(args) parameters, the chain is resolved as the longest declared
\* variable prefix with the later segments typed as field selections (an
\* undeclared reference at the target when no prefix is declared), and
\* after that the call is resolved as a member call of len(args)+1
\* arguments whose first is the target's type; no node of the resolved
\* part of the target is left without an outcome.  (In environments whose
\* lookups do not fail.)
C25_ReceiverFallThrough ==
  Traversed /\ run = 1 /\ CallAst /\ TargetChain /\ NamespacedAt = {}
  /\ Root \in DOMAIN vis.maybe_namespaced_functions_ /\ env.unavailable = {} =>
    LET k == Node(Root).target
        declared == {j \in 1..k : PrefixDeclared(j)}
        arg_types == ArgTypes(vis, Root, TRUE)
    IN /\ IF declared = {}
          THEN /\ vis.attributes_ = <<>>
               /\ \A i \in 1..k : i \notin DOMAIN vis.types_
               /\ IssuesAt(k) = <<Issue("error", k, "undeclared reference",
                                        ChainName(k), <<>>)>>
          ELSE LET j == Greatest(declared)
                   order == ContainerOrder(ChainName(j))
               IN /\ j \in DOMAIN vis.attributes_
                  /\ \A i \in 1..k : i \in DOMAIN vis.attributes_ => i = j
                  /\ vis.attributes_[j].name =
                       order[Least({i \in 1..Len(order) : VarDeclared(order[i])})]
                  /\ vis.types_[j] = vis.attributes_[j].type
                  /\ \A i \in 1..(j - 1) : i \notin DOMAIN vis.types_
                  /\ \A i \in (j + 1)..k : TypedAsSelect(i)
       /\ Len(arg_types) = Len(Node(Root).args) + 1
       /\ arg_types[1] = GetTypeOrDyn(vis, k)
       /\ IF ReceiverAt = {}
          THEN /\ Root \notin DOMAIN vis.functions_
               /\ IssuesAt(Root) = <<Issue("error", Root, "undeclared reference",
                                           Node(Root).name, <<>>)>>
          ELSE LET name == ContainerOrder(Node(Root).name)[Least(ReceiverAt)]
               IN IF Root \in DOMAIN vis.functions_
                  THEN /\ ~vis.functions_[Root].namespace_rewrite
                       /\ vis.functions_[Root].decl.name = name
                       /\ vis.functions_[Root].decl.overloads = Survivors(Root)
                       /\ \A i \in 1..Len(Survivors(Root)) :
                            /\ Survivors(Root)[i].member
                            /\ Len(Survivors(Root)[i].parameters) = Len(arg_types)
                       /\ IssuesAt(Root) = <<>>
                  ELSE IssuesAt(Root) = <<Issue("error", Root,
                                               "found no matching overload",
                                               name, arg_types)>>
       /\ \A i, j \in 1..Len(vis.issues) :
            vis.issues[i].id = Root /\ vis.issues[j].id <= k => j < i

\* A call a.b.f() where a is a declared variable of a struct type with the
\* field b, and f is a member function resolved on the type of a.b.
C25_Witness ==
  /\ Traversed /\ run = 1 /\ CallAst /\ TargetChain /\ NamespacedAt = {}
  /\ Root \in DOMAIN vis.maybe_namespaced_functions_ /\ env.unavailable = {}
  /\ Node(Root).target = 2
  /\ DOMAIN vis.attributes_ = {1}
  /\ 2 \in DOMAIN vis.types_
  /\ Root \in DOMAIN vis.functions_
  /\ ~vis.functions_[Root].namespace_rewrite
  /\ vis.issues = <<>>

\* ---- comprehension variables
\* The iter_range of comprehension c has been visited: its post-visit is
\* logged and the event that closes it is no longer to come.
RangeVisited(c) ==
  /\ \E i \in 1..Len(vis.visit_log) : vis.visit_log[i] = iter_range(Node(c))
  /\ \A i \in 1..Len(work) :
       ~(work[i].ev = "post_sub" /\ work[i].id = c /\ work[i].arg = "ITER_RANGE")
\* The type iter_var is to have for a range of type range_type.
IterType(range_type) ==
  IF range_type.k \in {"list", "map"} THEN range_type.p[1] ELSE DynType
RangeIssues(c) ==
  SelectSeq(vis.issues,
            LAMBDA x : x.id = c /\ x.msg = "cannot be the range of a comprehension")

\* C26: for every comprehension under visit whose iter_range has been
\* visited, the iter scope declares iter_var and nothing else, with the
\* element type of a list range, the key type of a map range and dyn
\* otherwise; the comprehension carries one range error when the range's
\* type is not a list, a map or dyn, and none when it is or when the range
\* has no type.
C26_IterVar ==
  \A k \in 1..Len(vis.comprehension_scopes_) :
     LET sc == vis.comprehension_scopes_[k]
         c == sc.comprehension_expr
         r == iter_range(Node(c))
         range_type == GetTypeOrDyn(vis, r)
     IN IF RangeVisited(c)
        THEN /\ vis.comprehension_vars_[sc.iter_scope].vars =
                  {MakeVariableDecl(Node(c).iter_var, IterType(range_type),
                                    sc.iter_scope)}
             /\ RangeIssues(c) =
                  IF range_type.k \in {"list", "map", "dyn"} THEN <<>>
                  ELSE <<Issue("error", c, "cannot be the range of a comprehension",
                               <<>>, <<range_type>>)>>
             /\ r \notin DOMAIN vis.types_ =>
                  /\ RangeIssues(c) = <<>>
                  /\ LookupVariable(env, vis.comprehension_vars_, sc.iter_scope,
                                    Node(c).iter_var)
                       = {MakeVariableDecl(Node(c).iter_var, DynType, sc.iter_scope)}
        ELSE vis.comprehension_vars_[sc.iter_scope].vars = {}

\* A comprehension over a range of an int type, in its loop_step: the range
\* error is there and an identifier of the loop_step has resolved to the
\* iter_var as dyn.
C26_Witness ==
  /\ Len(vis.comprehension_scopes_) = 1
  /\ LET sc == vis.comprehension_scopes_[1]
         c == sc.comprehension_expr
     IN /\ RangeVisited(c)
        /\ GetTypeOrDyn(vis, iter_range(Node(c))) = IntType
        /\ Len(RangeIssues(c)) = 1
        /\ \E id \in ResolvedInto(c, 4, sc.iter_scope) :
              vis.attributes_[id].type = DynType

\* ---- overload resolution and the inference context
\* The visitor as PostVisitCall hands it to ResolveFunctionOverloads: after
\* the target of a call that is no namespaced function is resolved.
BeforeOverloads(v, id) ==
  IF id \in DOMAIN v.maybe_namespaced_functions_
     /\ ResolveFunctionCallShape(
          FormatCandidate(v.maybe_namespaced_functions_[id]) \o Node(id).name,
          Len(Node(id).args), FALSE).decl = {}
  THEN ResolveQualifiedIdentifier(v, Node(id).target, v.maybe_namespaced_functions_[id])
  ELSE v
\* The context after the candidates of overloads are tested one after the
\* other from ic, all of them accepted.
RECURSIVE SurvivorBindings(_, _, _)
SurvivorBindings(ic, overloads, arg_types) ==
  IF overloads = <<>> THEN ic
  ELSE SurvivorBindings(TryOverload(ic, Head(overloads), arg_types).ic,
                        Tail(overloads), arg_types)
\* The candidates of decl of the call's style and arity that bind a type
\* variable on the first argument and are rejected on a later one.
BoundThenRejected(ic, decl, arg_types, is_receiver) ==
  {i \in 1..Len(decl.overloads) :
     LET ovl == decl.overloads[i]
         inst == InstantiateTypeParams(ic, OpaqueType(<<"signature">>,
                                           Append(ovl.parameters, ovl.result)))
     IN /\ ovl.member = is_receiver /\ Len(ovl.parameters) = Len(arg_types)
        /\ Len(arg_types) > 1
        /\ ~TryOverload(ic, ovl, arg_types).ok
        /\ IsAssignable(inst.ic, arg_types[1], inst.type.p[1]).ok
        /\ IsAssignable(inst.ic, arg_types[1], inst.type.p[1]).ic.bind # inst.ic.bind}

\* C27: over the post-visit of a call, the inference context becomes the
\* context in which the surviving candidates alone were tested, in
\* declaration order, on the context as it was before ResolveOverload; when
\* the call is left unresolved the inference context is as it was.
C27_Rollback ==
  [][Traversing("post") /\ Node(Top.id).kind = "call" =>
       LET id == Top.id
           before == BeforeOverloads(vis, id).ic
       IN IF id \in DOMAIN vis'.functions_
          THEN LET is_receiver == has_target(Node(id))
                                    /\ ~vis'.functions_[id].namespace_rewrite
               IN vis'.ic = SurvivorBindings(before, vis'.functions_[id].decl.overloads,
                                             ArgTypes(vis', id, is_receiver))
          ELSE vis'.ic = before]_vars

\* A call f(e1, e2) left unresolved after a candidate bound its type
\* variable on the first argument and was rejected on the second.
C27_Witness ==
  /\ Traversed /\ run = 1 /\ CallAst /\ ~has_target(Node(Root))
  /\ Len(Node(Root).args) = 2
  /\ Root \notin DOMAIN vis.functions_
  /\ \E d \in FunctionNamed(<<"f">>) :
       BoundThenRejected(vis.ic, d, ArgTypes(vis, Root, FALSE), FALSE) # {}
  /\ Len(IssuesAt(Root)) = 1
  /\ IssuesAt(Root)[1].msg = "found no matching overload"

\* ---- comprehension variables and the environment
\* Identifier id stands for itself: it is no operand of a select and no
\* target of a call.
StandsAlone(id) ==
  /\ Node(id).kind = "ident"
  /\ \A p \in 1..Len(ast.nodes) :
       id \in Children(p) => Node(p).kind # "select" /\ Node(p).target # id
\* Comprehension c binds identifier id as its iter_var, as its accu_var.
IterBinds(c, id) ==
  id \in Under(loop_step(Node(c))) /\ Node(id).name = Node(c).iter_var
AccuBinds(c, id) ==
  /\ id \in Under(loop_condition(Node(c))) \cup Under(loop_step(Node(c)))
             \cup Under(result(Node(c)))
  /\ Node(id).name = Node(c).accu_var
  /\ ~IterBinds(c, id)
\* A comprehension nested in c binds id as well.
BoundInside(c, id) ==
  \E d \in (Under(c) \ {c}) \cap NodesOfKind("comprehension") :
     IterBinds(d, id) \/ AccuBinds(d, id)
Visited(id) == \E i \in 1..Len(vis.visit_log) : vis.visit_log[i] = id

\* C28: for every comprehension under visit and every visited identifier
\* standing for itself that it binds and no nested comprehension binds, the
\* identifier has resolved to the comprehension's iter_var (in loop_step)
\* or accu_var (in loop_condition, loop_step and result), whatever the
\* container and the variables of the environment.
C28_InnermostWins ==
  \A k \in 1..Len(vis.comprehension_scopes_) :
     LET sc == vis.comprehension_scopes_[k]
         c == sc.comprehension_expr
     IN \A id \in {i \in Under(c) : StandsAlone(i) /\ Visited(i) /\ ~BoundInside(c, i)} :
          /\ IterBinds(c, id) =>
               /\ id \in DOMAIN vis.attributes_
               /\ vis.attributes_[id].scope = sc.iter_scope
               /\ vis.attributes_[id].name = Node(c).iter_var
          /\ AccuBinds(c, id) =>
               /\ id \in DOMAIN vis.attributes_
               /\ vis.attributes_[id].scope = sc.accu_scope
               /\ vis.attributes_[id].name = Node(c).accu_var

\* ---- the stacks of the traversal
\* The path of expression ids from the root down to id.
RECURSIVE PathTo(_)
PathTo(id) ==
  IF id = Root THEN <<Root>>
  ELSE Append(PathTo(CHOOSE p \in 1..Len(ast.nodes) : id \in Children(p)), id)
\* The path to the expression under visit: before the pre-visit of an
\* expression its parent, otherwise the expression of the next event.
PathUnderVisit ==
  IF work = <<>> THEN <<>>
  ELSE IF Top.ev = "pre" THEN SubSeq(PathTo(Top.id), 1, Len(PathTo(Top.id)) - 1)
  ELSE PathTo(Top.id)
\* The scope in which the part of comprehension scope sc that holds id is
\* visited.
PartScope(sc, id) ==
  LET nd == Node(sc.comprehension_expr)
  IN IF id \in Under(loop_step(nd)) THEN sc.iter_scope
     ELSE IF id \in Under(loop_condition(nd)) \cup Under(result(nd)) THEN sc.accu_scope
     ELSE sc.parent
\* The scope in which expression id is visited, given the comprehension
\* scopes below place k of the stack.
ScopeOf(id, k) ==
  IF k = 0 THEN 0 ELSE PartScope(vis.comprehension_scopes_[k], id)
ScopeFailures == {"Comprehension scope stack is empty in comprehension",
                  "Comprehension scope stack broken"}

\* C29: during the traversal the expression stack is the path from the
\* root to the expression under visit and the comprehension scope stack
\* holds the comprehensions on that path, innermost last, each with the
\* scope in which it was entered as parent; no scope-stack failure is ever
\* recorded; around each part of a comprehension the current scope is its
\* parent scope, inside a part it is the scope of that part; when the
\* traversal ends both stacks are empty and the current scope is the root
\* scope.
C29_Stacks ==
  pc = "traverse" /\ run = 1 =>
    LET depth == Len(vis.comprehension_scopes_)
    IN /\ vis.expr_stack_ = PathUnderVisit
       /\ [k \in 1..depth |-> vis.comprehension_scopes_[k].comprehension_expr]
            = SelectSeq(PathUnderVisit, LAMBDA id : Node(id).kind = "comprehension")
       /\ \A k \in 1..depth :
            LET sc == vis.comprehension_scopes_[k]
            IN /\ sc.parent = ScopeOf(sc.comprehension_expr, k - 1)
               /\ sc.accu_scope # sc.iter_scope
               /\ \A j \in 1..depth :
                    j # k => {sc.accu_scope, sc.iter_scope}
                               \cap {vis.comprehension_scopes_[j].accu_scope,
                                     vis.comprehension_scopes_[j].iter_scope} = {}
       /\ \A i \in 1..Len(vis.status_log) : vis.status_log[i] \notin ScopeFailures
       /\ work # <<>> =>
            vis.current_scope_ =
              IF Top.ev = "pre_sub" THEN vis.comprehension_scopes_[depth].parent
              ELSE IF Top.ev = "post_sub"
              THEN PartScope(vis.comprehension_scopes_[depth], Node(Top.id).args[
                     CHOOSE i \in 1..5 : ComprehensionArgs[i] = Top.arg])
              ELSE IF Top.ev = "post" /\ Node(Top.id).kind = "comprehension"
              THEN vis.comprehension_scopes_[depth].parent
              ELSE ScopeOf(Top.id, depth)
       /\ work = <<>> =>
            /\ vis.comprehension_scopes_ = <<>> /\ vis.expr_stack_ = <<>>
            /\ vis.current_scope_ = 0

\* In the loop_step of a comprehension nested in the loop_step of another:
\* two scopes on the stack, the inner one entered in the outer iter scope.
C29_Witness ==
  /\ pc = "traverse" /\ run = 1 /\ work # <<>> /\ Top.ev = "post"
  /\ Len(vis.comprehension_scopes_) = 2
  /\ Len(vis.expr_stack_) >= 3
  /\ vis.comprehension_scopes_[2].parent = vis.comprehension_scopes_[1].iter_scope
  /\ vis.current_scope_ = vis.comprehension_scopes_[2].iter_scope

\* ---- the annotation of the checked AST
\* C30: in the checked AST Check returns, every expression reachable from
\* the root has an entry in the type map, every identifier, call and struct
\* creation among them has an entry in the reference map, and the entry of
\* a call lists at least one overload id.
C30_Complete ==
  Returned /\ out.has_ast =>
    \A id \in Under(Root) :
       /\ id \in DOMAIN ast.type_map
       /\ Node(id).kind \in {"ident", "call", "struct"} =>
            id \in DOMAIN ast.reference_map
       /\ Node(id).kind = "call" => Len(ast.reference_map[id].overload_id) >= 1

\* A checked call with a target and a list argument: the call, its target
\* and its argument are typed, and the call lists its one overload.
C30_Witness ==
  /\ Returned /\ out.has_ast /\ run = 1 /\ CallAst
  /\ Node(Root).target # 0 /\ Len(Node(Root).args) = 1
  /\ Node(Node(Root).target).kind = "ident"
  /\ Node(Root).target \in DOMAIN ast.reference_map
  /\ Len(ast.reference_map[Root].overload_id) = 1
  /\ Under(Root) \subseteq DOMAIN ast.type_map

\* ---- candidates
\* C24: no enumeration of candidates offers the same candidate to its
\* callback twice.
C24_NoRepeatedCandidate ==
  \A e \in 1..Len(vis.gen_log) :
    \A i, j \in 1..Len(vis.gen_log[e]) :
      vis.gen_log[e][i] = vis.gen_log[e][j] => i = j

\* ---- source locations
\* The indexes of the line offsets that are not beyond position p.
LinesUpTo(p) ==
  {i \in 1..Len(probe.source_info.line_offsets) :
     probe.source_info.line_offsets[i] <= p}

\* C21: for an id with a recorded position p, the line is the number of the
\* greatest line offset not beyond p (1 plus its index counted from 0) and
\* the column is p minus that offset plus 1; both are at least 1.
C21_LineColumn ==
  probe.pc = "located" /\ probe.expr_id \in DOMAIN probe.source_info.positions =>
    LET p == probe.source_info.positions[probe.expr_id]
    IN /\ LinesUpTo(p) # {} =>
            /\ probe.location.line = Greatest(LinesUpTo(p))
            /\ probe.location.column =
                 p - probe.source_info.line_offsets[Greatest(LinesUpTo(p))] + 1
       /\ probe.location.line >= 1
       /\ probe.location.column >= 1

====

